---- MODULE Spec2Model ----
(***************************************************************************)
(* Model of the caching layer of the ConsignCloud MCP server:              *)
(*   cache.ts         (BulkCache, CacheManager)                            *)
(*   cache-wrapper.ts (CachingClient, INVALIDATION_MAP)                    *)
(*                                                                         *)
(* Conventions.                                                            *)
(*  - A JS string that the code takes apart ("items:*", "items:id") is a   *)
(*    sequence of chunks: <<"items", ":*">> is the string "items:*"; the   *)
(*    chunk ":*" is two characters long and the chunk ":id" three.         *)
(*  - A JS object used as a parameter mapping (Record<string, any>) is a   *)
(*    sequence of <<key, value>> pairs with distinct keys, in insertion    *)
(*    order.  Tool arguments arrive as JSON, so no key holds undefined.    *)
(*  - A JS Map is a sequence of its entries in insertion order.            *)
(*  - Time is counted in ticks of 15 minutes (900 s).                      *)
(***************************************************************************)
EXTENDS Integers, Sequences, FiniteSets, TLC

VARIABLES
    now,        \* the wall clock, new Date()
    config,     \* CacheManager.config
    caches,     \* CacheManager.caches : Map<string, BulkCache>
    last,       \* the last call made on the CacheManager surface and its result
    fed,        \* per cache name: the params passed to set since its table was created
    ops,        \* number of calls started so far
    upstream,   \* the ConsignCloud API's data, per entity type
    calls,      \* per caller: the CachingClient call it is in, and where it stands
    client,     \* CachingClient.lastRequestWasCached and lastCacheTimestamp
    probe       \* arguments and results of the helper functions applied on their own

vars == <<now, config, caches, last, fed, ops, upstream, calls, client, probe>>

----------------------------------------------------------------------------
(* Bounds *)

MaxTime == 2
MaxOps == 4
MaxCalls == 3
MaxParams == 3

----------------------------------------------------------------------------
(* Values *)

\* A JS value of type T | null (or T | undefined): None is null, Some(v) is v.
None == <<>>

Some(v) == <<v>>

\* Object.keys(params).sort(): the keys in use, in code-unit order.
KeyOrder == <<"cursor", "date_from", "date_to", "id", "limit", "location", "status">>

Keys(params) == {params[i][1] : i \in DOMAIN params}

HasKey(params, key) == key \in Keys(params)

Lookup(params, key) == params[CHOOSE i \in DOMAIN params : params[i][1] = key][2]

\* Nothing applied yet.
NoProbe == [fn |-> "none", args |-> <<>>, results |-> <<>>]

\* new CachingClient(client, cache)
NewClient == [lastRequestWasCached |-> FALSE, lastCacheTimestamp |-> None]

\* Entities carried by the cache; only id is read by the cache itself.
Entity(id, status, location) == [id |-> id, status |-> status, location |-> location]

----------------------------------------------------------------------------
(* BulkCache *)

NewBulkCache(type, ttlSeconds, warningThreshold) ==
    [type |-> type, ttlSeconds |-> ttlSeconds, warningThreshold |-> warningThreshold,
     data |-> None, hits |-> 0, misses |-> 0, warned |-> "none"]

\* The entity counts of the two fixed tiers of checkThreshold.
CriticalCount == 100000
WarningCount == 50000

\* checkThreshold(count): the console.warn it emits - "critical", "warning",
\* "threshold" - or "none".
CheckThreshold(count, warningThreshold) ==
    IF count >= CriticalCount THEN "critical"
    ELSE IF count >= WarningCount THEN "warning"
    ELSE IF count >= warningThreshold THEN "threshold"
    ELSE "none"

IsValid(c, t) ==
    IF c.data = None THEN FALSE ELSE t < c.data[1].expiresAt

\* A fingerprint that keeps the keys in insertion order.
SerializeQueryUnsorted(params) ==
    SelectSeq(params, LAMBDA pair : pair[1] # "limit" /\ pair[1] # "cursor")

SerializeQuery(params) ==
    LET sortedKeys == SelectSeq(KeyOrder, LAMBDA k : HasKey(params, k))
        kept == SelectSeq(sortedKeys, LAMBDA k : k # "limit" /\ k # "cursor")
    IN  [i \in 1..Len(kept) |-> <<kept[i], Lookup(params, kept[i])>>]

\* A stricter rule: the stored record must hold every key of the query.
EntryMatchesQueryExact(entry, queryParams) ==
    \E n \in DOMAIN entry.queries :
        LET q == entry.queries[n] IN
        \A j \in DOMAIN queryParams :
            LET key == queryParams[j][1]
                value == queryParams[j][2]
            IN  \/ key = "limit" \/ key = "cursor"
                \/ (HasKey(q.params, key) /\ Lookup(q.params, key) = value)

EntryMatchesQuery(entry, queryParams) ==
    \E n \in DOMAIN entry.queries :
        LET q == entry.queries[n] IN
        \A j \in DOMAIN queryParams :
            LET key == queryParams[j][1]
                value == queryParams[j][2]
            IN  \/ key = "limit" \/ key = "cursor"
                \/ ~(HasKey(q.params, key) /\ Lookup(q.params, key) # value)

EntryIndex(entries, id) ==
    IF \E i \in DOMAIN entries : entries[i].id = id
    THEN CHOOSE i \in DOMAIN entries : entries[i].id = id
    ELSE 0

\* A get that answers from any valid table, whether or not the query was run.
BulkGetAnyQuery(c, queryParams, t) ==
    IF ~IsValid(c, t)
    THEN [cache |-> [c EXCEPT !.misses = @ + 1], result |-> None]
    ELSE LET matching == SelectSeq(c.data[1].entries,
                                   LAMBDA e : EntryMatchesQuery(e, queryParams))
         IN  [cache |-> [c EXCEPT !.hits = @ + 1],
              result |-> Some([i \in 1..Len(matching) |-> matching[i].data])]

\* A get that stamps the table with the time of the read on a hit.
BulkGetTouches(c, queryParams, t) ==
    IF ~IsValid(c, t)
    THEN [cache |-> [c EXCEPT !.misses = @ + 1], result |-> None]
    ELSE IF SerializeQuery(queryParams) \in c.data[1].uniqueQueries
         THEN LET matching == SelectSeq(c.data[1].entries,
                                        LAMBDA e : EntryMatchesQuery(e, queryParams))
              IN  [cache |-> [c EXCEPT !.hits = @ + 1, !.data[1].lastUpdated = t + 1],
                   result |-> Some([i \in 1..Len(matching) |-> matching[i].data])]
         ELSE [cache |-> [c EXCEPT !.misses = @ + 1], result |-> None]

BulkGet(c, queryParams, t) ==
    IF ~IsValid(c, t)
    THEN [cache |-> [c EXCEPT !.misses = @ + 1], result |-> None]
    ELSE LET queryKey == SerializeQuery(queryParams) IN
         IF queryKey \in c.data[1].uniqueQueries
         THEN LET matching == SelectSeq(c.data[1].entries,
                                        LAMBDA e : EntryMatchesQuery(e, queryParams))
              IN  [cache |-> [c EXCEPT !.hits = @ + 1],
                   result |-> Some([i \in 1..Len(matching) |-> matching[i].data])]
         ELSE [cache |-> [c EXCEPT !.misses = @ + 1], result |-> None]

\* A merge that keeps the fields an entry already has and only records the query.
RECURSIVE MergeItemsKeepPayload(_, _, _)
MergeItemsKeepPayload(entries, items, queryMetadata) ==
    IF items = <<>> THEN entries
    ELSE LET item == Head(items)
             i == EntryIndex(entries, item.id)
             merged == IF i # 0
                       THEN [entries EXCEPT ![i].queries = Append(@, queryMetadata)]
                       ELSE Append(entries, [id |-> item.id, data |-> item,
                                             queries |-> <<queryMetadata>>])
         IN  MergeItemsKeepPayload(merged, Tail(items), queryMetadata)

\* A merge into a table of bounded size: an id that is not in the table yet is
\* rejected once the table holds one entry.
RECURSIVE MergeItemsCapped(_, _, _)
MergeItemsCapped(entries, items, queryMetadata) ==
    IF items = <<>> THEN entries
    ELSE LET item == Head(items)
             i == EntryIndex(entries, item.id)
             merged == IF i # 0
                       THEN [entries EXCEPT ![i] =
                                [@ EXCEPT !.data = item,
                                          !.queries = Append(@, queryMetadata)]]
                       ELSE IF Len(entries) >= 1 THEN entries
                       ELSE Append(entries, [id |-> item.id, data |-> item,
                                             queries |-> <<queryMetadata>>])
         IN  MergeItemsCapped(merged, Tail(items), queryMetadata)

RECURSIVE MergeItems(_, _, _)
MergeItems(entries, items, queryMetadata) ==
    IF items = <<>> THEN entries
    ELSE LET item == Head(items)
             i == EntryIndex(entries, item.id)
             merged == IF i # 0
                       THEN [entries EXCEPT ![i] =
                                [@ EXCEPT !.data = item,
                                          !.queries = Append(@, queryMetadata)]]
                       ELSE Append(entries, [id |-> item.id, data |-> item,
                                             queries |-> <<queryMetadata>>])
         IN  MergeItems(merged, Tail(items), queryMetadata)

\* A set that merges into whatever table is present, expired or not.
BulkSetKeepExpired(c, queryParams, items, t) ==
    LET expiresAt == t + c.ttlSeconds
        queryKey == SerializeQuery(queryParams)
        base == IF c.data = None
                THEN [entries |-> <<>>, lastUpdated |-> t, expiresAt |-> expiresAt,
                      uniqueQueries |-> {queryKey}]
                ELSE [c.data[1] EXCEPT !.uniqueQueries = @ \cup {queryKey},
                                       !.lastUpdated = t, !.expiresAt = expiresAt]
        queryMetadata == [params |-> queryParams, fetchedAt |-> t]
    IN  [c EXCEPT !.data =
            Some([base EXCEPT !.entries = MergeItems(base.entries, items, queryMetadata)])]

\* A set that forgets the fingerprints the table knew and keeps only its own.
BulkSetSingleQuery(c, queryParams, items, t) ==
    LET expiresAt == t + c.ttlSeconds
        queryKey == SerializeQuery(queryParams)
        base == IF c.data = None \/ ~IsValid(c, t)
                THEN [entries |-> <<>>, lastUpdated |-> t, expiresAt |-> expiresAt,
                      uniqueQueries |-> {queryKey}]
                ELSE [c.data[1] EXCEPT !.uniqueQueries = {queryKey},
                                       !.lastUpdated = t]
        queryMetadata == [params |-> queryParams, fetchedAt |-> t]
    IN  [c EXCEPT !.data =
            Some([base EXCEPT !.entries = MergeItems(base.entries, items, queryMetadata)])]

\* A set that pushes the expiry of a valid table one TTL past the write.
BulkSetSlidingExpiry(c, queryParams, items, t) ==
    LET expiresAt == t + c.ttlSeconds
        queryKey == SerializeQuery(queryParams)
        base == IF c.data = None \/ ~IsValid(c, t)
                THEN [entries |-> <<>>, lastUpdated |-> t, expiresAt |-> expiresAt,
                      uniqueQueries |-> {queryKey}]
                ELSE [c.data[1] EXCEPT !.uniqueQueries = @ \cup {queryKey},
                                       !.lastUpdated = t, !.expiresAt = expiresAt]
        queryMetadata == [params |-> queryParams, fetchedAt |-> t]
        entries == MergeItems(base.entries, items, queryMetadata)
    IN  [c EXCEPT !.data = Some([base EXCEPT !.entries = entries]),
                  !.warned = CheckThreshold(Len(entries), c.warningThreshold)]

\* The field warned holds what the checkThreshold call of the latest set wrote
\* to the console.
BulkSet(c, queryParams, items, t) ==
    LET expiresAt == t + c.ttlSeconds
        queryKey == SerializeQuery(queryParams)
        base == IF c.data = None \/ ~IsValid(c, t)
                THEN [entries |-> <<>>, lastUpdated |-> t, expiresAt |-> expiresAt,
                      uniqueQueries |-> {queryKey}]
                ELSE [c.data[1] EXCEPT !.uniqueQueries = @ \cup {queryKey},
                                       !.lastUpdated = t]
        queryMetadata == [params |-> queryParams, fetchedAt |-> t]
        entries == MergeItems(base.entries, items, queryMetadata)
    IN  [c EXCEPT !.data = Some([base EXCEPT !.entries = entries]),
                  !.warned = CheckThreshold(Len(entries), c.warningThreshold)]

\* A getById that answers only with entities that were stored by id.
BulkGetByIdOwnOnly(c, id, t) ==
    IF ~IsValid(c, t)
    THEN [cache |-> c, result |-> None]
    ELSE LET i == EntryIndex(c.data[1].entries, id) IN
         IF i # 0 /\ \E n \in DOMAIN c.data[1].entries[i].queries :
                        HasKey(c.data[1].entries[i].queries[n].params, "id")
         THEN [cache |-> [c EXCEPT !.hits = @ + 1],
               result |-> Some(c.data[1].entries[i].data)]
         ELSE [cache |-> [c EXCEPT !.misses = @ + 1], result |-> None]

BulkGetById(c, id, t) ==
    IF ~IsValid(c, t)
    THEN [cache |-> c, result |-> None]
    ELSE LET i == EntryIndex(c.data[1].entries, id) IN
         IF i # 0
         THEN [cache |-> [c EXCEPT !.hits = @ + 1],
               result |-> Some(c.data[1].entries[i].data)]
         ELSE [cache |-> [c EXCEPT !.misses = @ + 1], result |-> None]

\* ttlSeconds is the optional third argument: None when the caller passes undefined.
BulkSetById(c, id, item, ttlSeconds, t) ==
    LET ttl == IF ttlSeconds = None \/ ttlSeconds = Some(0)
               THEN c.ttlSeconds ELSE ttlSeconds[1]
        expiresAt == t + ttl
        base == IF c.data = None \/ ~IsValid(c, t)
                THEN [entries |-> <<>>, lastUpdated |-> t, expiresAt |-> expiresAt,
                      uniqueQueries |-> {}]
                ELSE c.data[1]
        entry == [id |-> id, data |-> item,
                  queries |-> << [params |-> << <<"id", id>> >>, fetchedAt |-> t] >>]
        i == EntryIndex(base.entries, id)
    IN  [c EXCEPT !.data =
            Some([base EXCEPT !.entries = IF i # 0 THEN [@ EXCEPT ![i] = entry]
                                                   ELSE Append(@, entry)])]

\* An invalidate that empties the entries and keeps the table.
BulkInvalidateEntriesOnly(c) ==
    IF c.data = None THEN c ELSE [c EXCEPT !.data[1].entries = <<>>]

BulkInvalidate(c) == [c EXCEPT !.data = None]

\* getStats: hitRate and sizeEstimateMB are counted in hundredths, rounded as
\* Math.round rounds (half up); the timestamps are the table's, as ticks.
BulkGetStats(c) ==
    IF c.data = None THEN None
    ELSE LET totalItems == Len(c.data[1].entries)
             totalRequests == c.hits + c.misses
         IN  Some([totalItems |-> totalItems,
                   uniqueQueries |-> Cardinality(c.data[1].uniqueQueries),
                   lastUpdated |-> c.data[1].lastUpdated,
                   expiresAt |-> c.data[1].expiresAt,
                   hitRate |-> IF totalRequests > 0
                               THEN (200 * c.hits + totalRequests) \div (2 * totalRequests)
                               ELSE 0,
                   sizeEstimateMB |-> (400 * totalItems + 1024) \div 2048])

----------------------------------------------------------------------------
(* CacheManager *)

\* The defaults of the constructor, in ticks of 15 minutes.
DefaultTtl ==
    (<<"categories">> :> 96) @@ (<<"locations">> :> 96) @@ (<<"accounts">> :> 16) @@
    (<<"items">> :> 8) @@ (<<"sales">> :> 4) @@ (<<"batches">> :> 8) @@
    (<<"item", ":id">> :> 2) @@ (<<"sale", ":id">> :> 1) @@
    (<<"account", ":id">> :> 4) @@ (<<"batch", ":id">> :> 2) @@
    (<<"category", ":id">> :> 96) @@ (<<"location", ":id">> :> 96)

\* new CacheManager(config): config is a Partial<CacheConfig>; enabled and
\* warningThreshold are None when absent, ttl holds the overriding keys.
NewConfig(partial) ==
    [enabled |-> IF partial.enabled # None THEN partial.enabled[1] ELSE TRUE,
     warningThreshold |-> IF partial.warningThreshold = None \/ partial.warningThreshold = Some(0)
                          THEN 10000 ELSE partial.warningThreshold[1],
     ttl |-> partial.ttl @@ DefaultTtl]

\* config.ttl[key]: None when the key is not in the mapping (undefined).
TtlAt(cfg, key) == IF key \in DOMAIN cfg.ttl THEN Some(cfg.ttl[key]) ELSE None

GetCache(cs, cfg, type) ==
    IF type \in DOMAIN cs THEN cs
    ELSE LET found == TtlAt(cfg, type)
             ttl == IF found = None \/ found = Some(0) THEN cfg.ttl[<<"items">>] ELSE found[1]
         IN  cs @@ (type :> NewBulkCache(type, ttl, cfg.warningThreshold))

ManagerGet(cs, cfg, type, queryParams, t) ==
    IF ~cfg.enabled THEN [caches |-> cs, result |-> None]
    ELSE LET cs1 == GetCache(cs, cfg, type)
             r == BulkGet(cs1[type], queryParams, t)
         IN  [caches |-> [cs1 EXCEPT ![type] = r.cache], result |-> r.result]

\* A set that does not look at the switch.
ManagerSetAlways(cs, cfg, type, queryParams, items, t) ==
    LET cs1 == GetCache(cs, cfg, type)
    IN  [cs1 EXCEPT ![type] = BulkSet(@, queryParams, items, t)]

ManagerSet(cs, cfg, type, queryParams, items, t) ==
    IF ~cfg.enabled THEN cs
    ELSE LET cs1 == GetCache(cs, cfg, type)
         IN  [cs1 EXCEPT ![type] = BulkSet(@, queryParams, items, t)]

ManagerGetById(cs, cfg, type, id, t) ==
    IF ~cfg.enabled THEN [caches |-> cs, result |-> None]
    ELSE LET cs1 == GetCache(cs, cfg, type)
             r == BulkGetById(cs1[type], id, t)
         IN  [caches |-> [cs1 EXCEPT ![type] = r.cache], result |-> r.result]

ManagerSetById(cs, cfg, type, id, item, t) ==
    IF ~cfg.enabled THEN cs
    ELSE LET ttl == TtlAt(cfg, type \o <<":id">>)
             cs1 == GetCache(cs, cfg, type)
         IN  [cs1 EXCEPT ![type] = BulkSetById(@, id, item, ttl, t)]

ManagerGetAllStats(cs) == [n \in DOMAIN cs |-> BulkGetStats(cs[n])]

\* type.endsWith(':*')
EndsWithWildcard(type) == Len(type) > 0 /\ type[Len(type)] = ":*"

\* type.slice(0, -2), used on strings that end with the two characters ":*"
SliceWildcard(type) == SubSeq(type, 1, Len(type) - 1)

\* The cache a key of an invalidation list addresses.
InvalidationTarget(type) == IF EndsWithWildcard(type) THEN SliceWildcard(type) ELSE type

\* An invalidate that drops the table of every cache there is.
ManagerInvalidateEvery(cs, cfg, types) == [type \in DOMAIN cs |-> BulkInvalidate(cs[type])]

\* types is the array form (a single string is wrapped into one).
RECURSIVE ManagerInvalidate(_, _, _)
ManagerInvalidate(cs, cfg, types) ==
    IF types = <<>> THEN cs
    ELSE LET target == InvalidationTarget(Head(types))
             cs1 == GetCache(cs, cfg, target)
         IN  ManagerInvalidate([cs1 EXCEPT ![target] = BulkInvalidate(@)], cfg, Tail(types))

ManagerClearAll(cs) == [type \in DOMAIN cs |-> BulkInvalidate(cs[type])]

----------------------------------------------------------------------------
(* Inputs *)

Items == <<"items">>
Sales == <<"sales">>

\* The CacheConfig values the entry points may pass: defaults, a short items
\* TTL from the environment, and caching switched off.
ConfigChoices ==
    { [enabled |-> Some(TRUE), warningThreshold |-> Some(10000), ttl |-> <<>>],
      [enabled |-> Some(TRUE), warningThreshold |-> Some(10000), ttl |-> (Items :> 2)],
      [enabled |-> Some(FALSE), warningThreshold |-> Some(10000), ttl |-> <<>>] }

Types == {Items, Sales}

Ids == {"a", "b"}

A1 == Entity("a", "active", "L1")
A2 == Entity("a", "sold", "L1")
B1 == Entity("b", "active", "L2")

EntityPool == {A1, A2, B1}

QActive == << <<"status", "active">> >>
QSold == << <<"status", "sold">> >>
QActiveL1 == << <<"status", "active">>, <<"location", "L1">> >>
QActiveL2 == << <<"status", "active">>, <<"location", "L2">> >>
QL1Active == << <<"location", "L1">>, <<"status", "active">> >>
QLimitActive == << <<"limit", 1>>, <<"status", "active">> >>

\* Queries read through CacheManager.get.
Queries == {QActive, QSold, QActiveL1, QL1Active, QLimitActive}

\* (query, result list) pairs written through CacheManager.set.
SetInputs ==
    { <<QActive, <<A1, B1>> >>, <<QActiveL1, <<A1>> >>, <<QActiveL2, <<B1>> >>,
      <<QSold, <<A2>> >> }

\* Entities written through CacheManager.setById.
ByIdInputs == {A2, B1}

\* Arguments of CacheManager.invalidate (a single string is one-element here).
InvalidateArgs == { << Items >>, << <<"items", ":*">> >> }

CacheNames ==
    Types \cup UNION { {InvalidationTarget(ts[i]) : i \in DOMAIN ts} : ts \in InvalidateArgs }

----------------------------------------------------------------------------
(* The CacheManager surface, called directly *)

\* Whether the table of cache `type` is present and unexpired at time t.
TableValid(cs, type, t) == type \in DOMAIN cs /\ IsValid(cs[type], t)

\* Whether the table of cache `type` is present but expired at time t.
TableExpired(cs, type, t) ==
    type \in DOMAIN cs /\ cs[type].data # None /\ ~IsValid(cs[type], t)

NoCall == [op |-> "none", type |-> <<>>, params |-> <<>>, id |-> "", items |-> <<>>,
           result |-> None, at |-> 0, validBefore |-> FALSE, expiredBefore |-> FALSE]

\* The record of a call: its arguments, its result, the time it ran at and what the
\* addressed table was when it started.
Call(op, type, params, id, items, result) ==
    [op |-> op, type |-> type, params |-> params, id |-> id, items |-> items,
     result |-> result, at |-> now,
     validBefore |-> TableValid(caches, type, now),
     expiredBefore |-> TableExpired(caches, type, now)]

MgrGet(type, queryParams) ==
    /\ ops < MaxOps
    /\ LET r == ManagerGet(caches, config, type, queryParams, now) IN
       /\ caches' = r.caches
       /\ last' = Call("get", type, queryParams, "", <<>>, r.result)
    /\ ops' = ops + 1
    /\ UNCHANGED <<now, config, fed, upstream, calls, client, probe>>

MgrSet(type, queryParams, items) ==
    /\ ops < MaxOps
    /\ caches' = ManagerSet(caches, config, type, queryParams, items, now)
    /\ last' = Call("set", type, queryParams, "", items, None)
    /\ fed' = IF ~config.enabled THEN fed
              ELSE [fed EXCEPT ![type] = IF TableValid(caches, type, now)
                                         THEN @ \cup {queryParams} ELSE {queryParams}]
    /\ ops' = ops + 1
    /\ UNCHANGED <<now, config, upstream, calls, client, probe>>

MgrGetById(type, id) ==
    /\ ops < MaxOps
    /\ LET r == ManagerGetById(caches, config, type, id, now) IN
       /\ caches' = r.caches
       /\ last' = Call("getById", type, <<>>, id, <<>>, r.result)
    /\ ops' = ops + 1
    /\ UNCHANGED <<now, config, fed, upstream, calls, client, probe>>

MgrSetById(type, item) ==
    /\ ops < MaxOps
    /\ caches' = ManagerSetById(caches, config, type, item.id, item, now)
    /\ last' = Call("setById", type, <<>>, item.id, <<item>>, None)
    /\ fed' = IF ~config.enabled \/ TableValid(caches, type, now) THEN fed
              ELSE [fed EXCEPT ![type] = {}]
    /\ ops' = ops + 1
    /\ UNCHANGED <<now, config, upstream, calls, client, probe>>

MgrInvalidate(types) ==
    /\ ops < MaxOps
    /\ caches' = ManagerInvalidate(caches, config, types)
    /\ last' = Call("invalidate", <<>>, types, "", <<>>, None)
    /\ fed' = [n \in CacheNames |->
                  IF \E i \in DOMAIN types : InvalidationTarget(types[i]) = n
                  THEN {} ELSE fed[n]]
    /\ ops' = ops + 1
    /\ UNCHANGED <<now, config, upstream, calls, client, probe>>

MgrClearAll ==
    /\ ops < MaxOps
    /\ caches' = ManagerClearAll(caches)
    /\ last' = Call("clearAll", <<>>, <<>>, "", <<>>, None)
    /\ fed' = [n \in CacheNames |-> IF n \in DOMAIN caches THEN {} ELSE fed[n]]
    /\ ops' = ops + 1
    /\ UNCHANGED <<now, config, upstream, calls, client, probe>>

\* The wall clock advances between any two synchronous steps.
Tick ==
    /\ now < MaxTime
    /\ now' = now + 1
    /\ UNCHANGED <<config, caches, last, fed, ops, upstream, calls, client, probe>>

InitManager ==
    /\ now = 0
    /\ config \in {NewConfig(p) : p \in ConfigChoices}
    /\ caches = <<>>
    /\ last = NoCall
    /\ fed = [n \in CacheNames |-> {}]
    /\ ops = 0
    /\ upstream = <<>>
    /\ calls = <<>>
    /\ client = NewClient
    /\ probe = NoProbe

NextManager ==
    \/ \E q \in Queries : MgrGet(Items, q)
    \/ \E in \in SetInputs : MgrSet(Items, in[1], in[2])
    \/ \E id \in Ids : MgrGetById(Items, id)
    \/ \E item \in ByIdInputs : MgrSetById(Items, item)
    \/ \E types \in InvalidateArgs : MgrInvalidate(types)
    \/ MgrClearAll
    \/ Tick

SpecManager == InitManager /\ [][NextManager]_vars

----------------------------------------------------------------------------
(* The upstream API (ConsignCloudClient and the service behind it) *)

\* Parameters the API has no filter for: where it answers at all it answers as if
\* they were absent.
UnknownParameters == {"date_from", "date_to"}

\* The largest page size the API accepts; a larger limit is a 400 Bad Request.
MaxPageSize == 100

UpstreamAccepts(params) == Lookup(params, "limit") <= MaxPageSize

FieldOf(entity, key) ==
    CASE key = "status" -> entity.status
      [] key = "location" -> entity.location
      [] key = "id" -> entity.id

\* The entities of a list that pass every filter of params (limit and cursor are
\* pagination, not filters).
Filtered(entities, params) ==
    SelectSeq(entities,
              LAMBDA e : \A j \in DOMAIN params :
                            \/ params[j][1] = "limit" \/ params[j][1] = "cursor"
                            \/ params[j][1] \in UnknownParameters
                            \/ FieldOf(e, params[j][1]) = params[j][2])

Min(x, y) == IF x <= y THEN x ELSE y

\* GET /<type>?params: one page {data, next_cursor}.  A cursor is the number of
\* entities of the filtered list that precede the page it names.
UpstreamList(entities, params) ==
    LET all == Filtered(entities, params)
        from == IF HasKey(params, "cursor") THEN Lookup(params, "cursor") ELSE 0
        upto == Min(Len(all), from + Lookup(params, "limit"))
    IN  [data |-> SubSeq(all, from + 1, upto),
         next_cursor |-> IF upto < Len(all) THEN Some(upto) ELSE None]

\* The ids the API gives to the entities it creates, by the length of the list.
NewIds == <<"n1", "n2", "n3", "n4", "n5", "n6", "n7", "n8">>

\* A list of entities with the status of one of them replaced.
WithStatus(entities, id, status) ==
    [i \in DOMAIN entities |->
        IF entities[i].id = id THEN [entities[i] EXCEPT !.status = status] ELSE entities[i]]

\* What a successful mutation does to the API's data.  updateItem flips the status
\* of the item, voidSale voids the sale and returns every sold item to active;
\* createItem adds an active item, deleteItem and restoreItem mark and unmark the
\* item, bulkEditItems moves every item to one location, updateItemStatuses marks
\* the item sold; createSale adds a sale and marks the item sold, updateSale moves
\* the sale, refundSale refunds it and returns every item to active.
UpstreamAfter(up, method, id) ==
    CASE method = "updateItem" ->
            [up EXCEPT ![<<"items">>] =
                [i \in DOMAIN @ |->
                    IF @[i].id = id
                    THEN [@[i] EXCEPT !.status = IF @ = "active" THEN "sold" ELSE "active"]
                    ELSE @[i]]]
      [] method = "voidSale" ->
            [up EXCEPT ![<<"sales">>] =
                        [i \in DOMAIN @ |->
                            IF @[i].id = id THEN [@[i] EXCEPT !.status = "voided"] ELSE @[i]],
                       ![<<"items">>] =
                        [i \in DOMAIN @ |-> [@[i] EXCEPT !.status = "active"]]]
      [] method = "createItem" ->
            [up EXCEPT ![<<"items">>] =
                Append(@, [id |-> NewIds[Len(@)], status |-> "active", location |-> "L1"])]
      [] method = "deleteItem" ->
            [up EXCEPT ![<<"items">>] = WithStatus(@, id, "deleted")]
      [] method = "restoreItem" ->
            [up EXCEPT ![<<"items">>] = WithStatus(@, id, "active")]
      [] method = "bulkEditItems" ->
            [up EXCEPT ![<<"items">>] = [i \in DOMAIN @ |-> [@[i] EXCEPT !.location = "L1"]]]
      [] method = "updateItemStatuses" ->
            [up EXCEPT ![<<"items">>] = WithStatus(@, id, "sold")]
      [] method = "createSale" ->
            [up EXCEPT ![<<"sales">>] =
                        Append(@, [id |-> NewIds[Len(@)], status |-> "completed",
                                   location |-> "L1"]),
                       ![<<"items">>] = WithStatus(@, id, "sold")]
      [] method = "updateSale" ->
            [up EXCEPT ![<<"sales">>] =
                [i \in DOMAIN @ |->
                    IF @[i].id = id THEN [@[i] EXCEPT !.location = "L2"] ELSE @[i]]]
      [] method = "refundSale" ->
            [up EXCEPT ![<<"sales">>] = WithStatus(@, id, "refunded"),
                       ![<<"items">>] =
                        [i \in DOMAIN @ |-> [@[i] EXCEPT !.status = "active"]]]

----------------------------------------------------------------------------
(* CachingClient *)

\* The table with the items key missing from the sale operations.
INVALIDATION_MAP_SalesOnly ==
    [op \in {"update_item", "void_sale"} |->
        IF op = "void_sale" THEN << <<"sales">>, <<"sale", ":*">> >>
        ELSE << <<"items">>, <<"item", ":*">> >>]

INVALIDATION_MAP ==
    ("create_item" :> << <<"items">>, <<"item", ":*">> >>) @@
    ("update_item" :> << <<"items">>, <<"item", ":*">> >>) @@
    ("delete_item" :> << <<"items">>, <<"item", ":*">> >>) @@
    ("restore_item" :> << <<"items">>, <<"item", ":*">> >>) @@
    ("bulk_edit_items" :> << <<"items">>, <<"item", ":*">> >>) @@
    ("update_item_statuses" :> << <<"items">>, <<"item", ":*">> >>) @@
    ("create_sale" :> << <<"sales">>, <<"sale", ":*">>, <<"items">> >>) @@
    ("update_sale" :> << <<"sales">>, <<"sale", ":*">>, <<"items">> >>) @@
    ("void_sale" :> << <<"sales">>, <<"sale", ":*">>, <<"items">> >>) @@
    ("refund_sale" :> << <<"sales">>, <<"sale", ":*">>, <<"items">> >>) @@
    ("create_account" :> << <<"accounts">>, <<"account", ":*">> >>) @@
    ("update_account" :> << <<"accounts">>, <<"account", ":*">> >>) @@
    ("delete_account" :> << <<"accounts">>, <<"account", ":*">> >>) @@
    ("create_category" :> << <<"categories">>, <<"category", ":*">> >>) @@
    ("update_category" :> << <<"categories">>, <<"category", ":*">> >>) @@
    ("delete_category" :> << <<"categories">>, <<"category", ":*">> >>) @@
    ("create_location" :> << <<"locations">>, <<"location", ":*">> >>) @@
    ("update_location" :> << <<"locations">>, <<"location", ":*">> >>) @@
    ("delete_location" :> << <<"locations">>, <<"location", ":*">> >>) @@
    ("create_batch" :> << <<"batches">>, <<"batch", ":*">> >>) @@
    ("update_batch" :> << <<"batches">>, <<"batch", ":*">> >>) @@
    ("update_batch_status" :> << <<"batches">>, <<"batch", ":*">>, <<"items">> >>)

\* The mutation methods of CachingClient: the operation name each hands to
\* invalidateCache, and the cache type of the entities it creates or changes.
MutationMethods ==
    [createItem |-> [operation |-> "create_item", type |-> <<"items">>],
     updateItem |-> [operation |-> "update_item", type |-> <<"items">>],
     deleteItem |-> [operation |-> "delete_item", type |-> <<"items">>],
     restoreItem |-> [operation |-> "restore_item", type |-> <<"items">>],
     bulkEditItems |-> [operation |-> "bulk_edit_items", type |-> <<"items">>],
     updateItemStatuses |-> [operation |-> "update_item_statuses", type |-> <<"items">>],
     createSale |-> [operation |-> "create_sale", type |-> <<"sales">>],
     updateSale |-> [operation |-> "update_sale", type |-> <<"sales">>],
     voidSale |-> [operation |-> "void_sale", type |-> <<"sales">>],
     refundSale |-> [operation |-> "refund_sale", type |-> <<"sales">>],
     createAccount |-> [operation |-> "create_account", type |-> <<"accounts">>],
     updateAccount |-> [operation |-> "update_account", type |-> <<"accounts">>],
     deleteAccount |-> [operation |-> "delete_account", type |-> <<"accounts">>],
     createCategory |-> [operation |-> "create_category", type |-> <<"categories">>],
     updateCategory |-> [operation |-> "update_category", type |-> <<"categories">>],
     deleteCategory |-> [operation |-> "delete_category", type |-> <<"categories">>],
     createLocation |-> [operation |-> "create_location", type |-> <<"locations">>],
     updateLocation |-> [operation |-> "update_location", type |-> <<"locations">>],
     deleteLocation |-> [operation |-> "delete_location", type |-> <<"locations">>],
     createBatch |-> [operation |-> "create_batch", type |-> <<"batches">>],
     updateBatch |-> [operation |-> "update_batch", type |-> <<"batches">>],
     updateBatchStatus |-> [operation |-> "update_batch_status", type |-> <<"batches">>]]

\* A method that hands its own name to invalidateCache.
OperationOfMethodName(method) == method

\* The operation name a mutation method hands to invalidateCache.
OperationOf(method) == MutationMethods[method].operation

InvalidateCache(cs, cfg, operation) ==
    IF operation \in DOMAIN INVALIDATION_MAP
    THEN ManagerInvalidate(cs, cfg, INVALIDATION_MAP[operation])
    ELSE cs

\* obj[key] = value on an insertion-ordered object.
SetKey(params, key, value) ==
    IF HasKey(params, key)
    THEN [i \in DOMAIN params |-> IF params[i][1] = key THEN <<key, value>> ELSE params[i]]
    ELSE Append(params, <<key, value>>)

\* { ...base, ...params }
RECURSIVE Spread(_, _)
Spread(base, params) ==
    IF params = <<>> THEN base
    ELSE Spread(SetKey(base, Head(params)[1], Head(params)[2]), Tail(params))

\* this.cache.getAllStats()[type]?.lastUpdated || null
StatsLastUpdated(cs, type) ==
    IF type \in DOMAIN cs /\ cs[type].data # None
    THEN Some(cs[type].data[1].lastUpdated) ELSE None

\* A drain that caches the pages it has when the error arrives.
AfterFailedDrainKeepsPages(cs, cfg, type, params, allItems, t) ==
    ManagerSet(cs, cfg, type, params, allItems, t)

\* What a drain that an upstream error cut short leaves in the caches: the error
\* leaves fetchListWithCache before it reaches this.cache.set.
AfterFailedDrain(cs, cfg, type, params, allItems, t) == cs

Idle ==
    [pc |-> "idle", method |-> "", type |-> <<>>, params |-> <<>>, id |-> "",
     queryParams |-> <<>>, allItems |-> <<>>, requests |-> <<>>, result |-> None,
     hit |-> FALSE, sets |-> 0, wrote |-> FALSE, stable |-> TRUE, readBack |-> None,
     raced |-> FALSE, ranLast |-> FALSE, cleared |-> {},
     startedAlone |-> FALSE, startOps |-> 0, known |-> {}]

\* Whether the tables of cs2 differ from those of cs1 (a cache that does not exist
\* yet holds no table).
TablesDiffer(cs1, cs2) ==
    \E n \in DOMAIN cs2 :
        cs2[n].data # (IF n \in DOMAIN cs1 THEN cs1[n].data ELSE None)

Free(p) == calls[p].pc \in {"idle", "done", "failed"}

\* Callers are interchangeable: a new call is taken by the first caller that is not
\* inside one.
CallerOrder == <<"c1", "c2">>

Callers == {CallerOrder[i] : i \in DOMAIN CallerOrder}

NextCaller(p) ==
    /\ Free(p)
    /\ \A i, j \in DOMAIN CallerOrder :
          (i < j /\ CallerOrder[j] = p) => ~Free(CallerOrder[i])

\* listItems / listSales -> fetchListWithCache, up to its first await.
ListStart(p, type, params) ==
    /\ NextCaller(p)
    /\ ops < MaxCalls
    /\ ops' = ops + 1
    /\ LET r == ManagerGet(caches, config, type, params, now)
           queryParams == Spread(<< <<"limit", 100>> >>, params)
           racing == {o \in DOMAIN calls :
                        /\ o # p
                        /\ calls[o].pc = "awaitList"
                        /\ calls[o].type = type
                        /\ calls[o].params = params}
       IN  /\ caches' = r.caches
           /\ IF r.result # None
              THEN /\ client' = [lastRequestWasCached |-> TRUE,
                                 lastCacheTimestamp |-> StatsLastUpdated(r.caches, type)]
                   /\ calls' = [calls EXCEPT ![p] =
                                   [Idle EXCEPT !.pc = "done", !.method = "list",
                                                !.type = type, !.params = params,
                                                !.result = r.result, !.hit = TRUE]]
              ELSE /\ client' = client
                   /\ calls' = [o \in DOMAIN calls |->
                                   IF o = p
                                   THEN [Idle EXCEPT !.pc = "awaitList", !.method = "list",
                                                     !.type = type, !.params = params,
                                                     !.queryParams = queryParams,
                                                     !.requests = <<queryParams>>,
                                                     !.raced = racing # {}]
                                   ELSE IF o \in racing
                                        THEN [calls[o] EXCEPT !.raced = TRUE]
                                        ELSE calls[o]]
    /\ UNCHANGED <<now, config, last, fed, upstream, probe>>

\* A drain that caches what it has after every page.
DuringDrainSetsPage(cs, cfg, type, params, allItems, t) ==
    ManagerSet(cs, cfg, type, params, allItems, t)

\* What a page that is not the last one does to the caches: the loop body only
\* extends allItems and takes the cursor; cache.set comes after the loop.
DuringDrain(cs, cfg, type, params, allItems, t) == cs

\* A page arrives: the loop body after the await, then either the next request or
\* the cache.set and the return.
ListPage(p) ==
    /\ calls[p].pc = "awaitList"
    /\ UpstreamAccepts(calls[p].queryParams)
    /\ LET c == calls[p]
           response == UpstreamList(upstream[c.type], c.queryParams)
           allItems == c.allItems \o response.data
           cursor == response.next_cursor
       IN  IF cursor # None
           THEN /\ calls' = [calls EXCEPT ![p] =
                               [c EXCEPT !.allItems = allItems,
                                         !.queryParams = SetKey(@, "cursor", cursor[1]),
                                         !.requests =
                                            Append(@, SetKey(c.queryParams, "cursor", cursor[1]))]]
                /\ caches' = DuringDrain(caches, config, c.type, c.params, allItems, now)
                /\ UNCHANGED client
           ELSE \E cs \in {ManagerSet(caches, config, c.type, c.params, allItems, now)} :
                LET lastDone == \E o \in DOMAIN calls :
                                   /\ o # p
                                   /\ calls[o].raced
                                   /\ calls[o].pc = "done"
                                   /\ calls[o].type = c.type
                                   /\ calls[o].params = c.params
                IN  /\ caches' = cs
                    /\ client' = [lastRequestWasCached |-> FALSE,
                                  lastCacheTimestamp |-> Some(now)]
                    /\ calls' = [calls EXCEPT ![p] =
                                   [c EXCEPT !.pc = "done", !.allItems = allItems,
                                             !.result = Some(allItems),
                                             !.sets = @ + 1,
                                             !.wrote = @ \/ TablesDiffer(caches, cs),
                                             !.ranLast = c.raced /\ lastDone,
                                             !.readBack =
                                                ManagerGet(cs, config, c.type, c.params, now).result]]
    /\ UNCHANGED <<now, config, last, fed, ops, upstream, probe>>

\* The awaited request fails: the error leaves fetchListWithCache.
ListFail(p) ==
    /\ calls[p].pc = "awaitList"
    /\ LET c == calls[p]
           cs == AfterFailedDrain(caches, config, c.type, c.params, c.allItems, now)
       IN  /\ caches' = cs
           /\ calls' = [calls EXCEPT ![p] =
                           [c EXCEPT !.pc = "failed",
                                     !.wrote = @ \/ TablesDiffer(caches, cs)]]
    /\ UNCHANGED <<now, config, last, fed, ops, upstream, client, probe>>

\* A refresh that skips the invalidate and lists over the table as it is.
RefreshKeepsTable(cs, cfg, type) == cs

\* refreshCache, its first statement: this.cache.invalidate(type).
RefreshInvalidate(cs, cfg, type) == ManagerInvalidate(cs, cfg, <<type>>)

\* The fingerprints the table of a type knows (none without a valid table).
KnownQueries(cs, type, t) ==
    IF type \in DOMAIN cs /\ IsValid(cs[type], t)
    THEN cs[type].data[1].uniqueQueries
    ELSE {}

\* refreshCache(type): the invalidate, then listX({}) up to its first await.
RefreshStart(p, type) ==
    /\ NextCaller(p)
    /\ ops < MaxCalls
    /\ ops' = ops + 1
    /\ LET cleared == RefreshInvalidate(caches, config, type)
           r == ManagerGet(cleared, config, type, <<>>, now)
           queryParams == Spread(<< <<"limit", 100>> >>, <<>>)
           racing == {o \in DOMAIN calls :
                        /\ o # p
                        /\ calls[o].pc = "awaitList"
                        /\ calls[o].type = type
                        /\ calls[o].params = <<>>}
           started == [Idle EXCEPT !.method = "refresh", !.type = type,
                                   !.startedAlone = \A o \in DOMAIN calls : o # p => Free(o),
                                   !.startOps = ops + 1,
                                   !.known = KnownQueries(caches, type, now)]
       IN  /\ caches' = r.caches
           /\ IF r.result # None
              THEN /\ client' = [lastRequestWasCached |-> TRUE,
                                 lastCacheTimestamp |-> StatsLastUpdated(r.caches, type)]
                   /\ calls' = [calls EXCEPT ![p] =
                                   [started EXCEPT !.pc = "done", !.result = r.result,
                                                   !.hit = TRUE]]
              ELSE /\ client' = client
                   /\ calls' = [o \in DOMAIN calls |->
                                   IF o = p
                                   THEN [started EXCEPT !.pc = "awaitList",
                                                        !.queryParams = queryParams,
                                                        !.requests = <<queryParams>>,
                                                        !.raced = racing # {}]
                                   ELSE IF o \in racing
                                        THEN [calls[o] EXCEPT !.raced = TRUE]
                                        ELSE calls[o]]
    /\ UNCHANGED <<now, config, last, fed, upstream, probe>>

\* getItem / getSale -> fetchByIdWithCache, up to its await.
GetStart(p, type, id) ==
    /\ NextCaller(p)
    /\ ops < MaxCalls
    /\ ops' = ops + 1
    /\ LET r == ManagerGetById(caches, config, type, id, now) IN
       /\ caches' = r.caches
       /\ IF r.result # None
          THEN /\ client' = [lastRequestWasCached |-> TRUE,
                             lastCacheTimestamp |-> StatsLastUpdated(r.caches, type)]
               /\ calls' = [calls EXCEPT ![p] =
                               [Idle EXCEPT !.pc = "done", !.method = "get", !.type = type,
                                            !.id = id, !.result = r.result, !.hit = TRUE]]
          ELSE /\ client' = client
               /\ calls' = [calls EXCEPT ![p] =
                               [Idle EXCEPT !.pc = "awaitGet", !.method = "get",
                                            !.type = type, !.id = id,
                                            !.requests = << << <<"id", id>> >> >>]]
    /\ UNCHANGED <<now, config, last, fed, upstream, probe>>

\* The entity arrives: cache.setById and the return.
GetResponse(p) ==
    /\ calls[p].pc = "awaitGet"
    /\ LET c == calls[p] IN
       /\ \E i \in DOMAIN upstream[c.type] : upstream[c.type][i].id = c.id
       /\ LET item == upstream[c.type][CHOOSE i \in DOMAIN upstream[c.type] :
                                           upstream[c.type][i].id = c.id]
              cs == ManagerSetById(caches, config, c.type, c.id, item, now)
          IN  /\ caches' = cs
              /\ client' = [lastRequestWasCached |-> FALSE, lastCacheTimestamp |-> Some(now)]
              /\ calls' = [calls EXCEPT ![p] =
                              [c EXCEPT !.pc = "done", !.result = Some(item),
                                        !.wrote = @ \/ TablesDiffer(caches, cs)]]
    /\ UNCHANGED <<now, config, last, fed, ops, upstream, probe>>

\* The awaited request fails (a 404, a network error): fetchByIdWithCache throws.
GetFail(p) ==
    /\ calls[p].pc = "awaitGet"
    /\ calls' = [calls EXCEPT ![p].pc = "failed"]
    /\ UNCHANGED <<now, config, caches, last, fed, ops, upstream, client, probe>>

\* GET /search and GET /suggest: the entities whose id is the query, and the
\* values of a field among the entities of one type that carry the value.
UpstreamSearch(up, method, params) ==
    IF method = "search"
    THEN SelectSeq(up[Items] \o up[Sales],
                   LAMBDA e : e.id = Lookup(params, "query"))
    ELSE LET found == Filtered(up[<<Lookup(params, "entity")>>],
                               << <<Lookup(params, "field"), Lookup(params, "value")>> >>)
         IN  [i \in DOMAIN found |-> FieldOf(found[i], Lookup(params, "field"))]

\* A search that first looks its arguments up among the cached items.
SearchCountsLookup(cs, cfg, params, t) == ManagerGet(cs, cfg, Items, params, t).caches

\* What search / suggestFieldValues do to the caches before they call the API:
\* neither method touches this.cache.
SearchCaches(cs, cfg, params, t) == cs

\* search / suggestFieldValues, up to the await of the upstream call.
SearchStart(p, method, params) ==
    /\ NextCaller(p)
    /\ ops < MaxCalls
    /\ ops' = ops + 1
    /\ caches' = SearchCaches(caches, config, params, now)
    /\ client' = [lastRequestWasCached |-> FALSE, lastCacheTimestamp |-> None]
    /\ calls' = [calls EXCEPT ![p] =
                    [Idle EXCEPT !.pc = "awaitSearch", !.method = method,
                                 !.params = params, !.requests = <<params>>]]
    /\ UNCHANGED <<now, config, last, fed, upstream, probe>>

\* The response arrives and is returned as it is.
SearchResponse(p) ==
    /\ calls[p].pc = "awaitSearch"
    /\ calls' = [calls EXCEPT ![p] =
                    [calls[p] EXCEPT
                        !.pc = "done",
                        !.result = Some(UpstreamSearch(upstream, calls[p].method,
                                                       calls[p].params))]]
    /\ UNCHANGED <<now, config, caches, last, fed, ops, upstream, client, probe>>

\* The awaited request fails: the error leaves the method.
SearchFail(p) ==
    /\ calls[p].pc = "awaitSearch"
    /\ calls' = [calls EXCEPT ![p].pc = "failed"]
    /\ UNCHANGED <<now, config, caches, last, fed, ops, upstream, client, probe>>

\* updateItem / voidSale, up to the await of the upstream call.
MutationStart(p, method, id) ==
    /\ NextCaller(p)
    /\ ops < MaxCalls
    /\ ops' = ops + 1
    /\ calls' = [calls EXCEPT ![p] =
                    [Idle EXCEPT !.pc = "awaitMutation", !.method = method, !.id = id]]
    /\ UNCHANGED <<now, config, caches, last, fed, upstream, client, probe>>

\* The upstream applies the mutation and answers: invalidateCache and the return.
MutationResponse(p) ==
    /\ calls[p].pc = "awaitMutation"
    /\ LET c == calls[p]
           up == UpstreamAfter(upstream, c.method, c.id)
           cs == InvalidateCache(caches, config, OperationOf(c.method))
       IN  /\ upstream' = up
           /\ caches' = cs
           /\ calls' = [o \in DOMAIN calls |->
                           IF o = p
                           THEN [c EXCEPT !.pc = "done",
                                          !.wrote = @ \/ TablesDiffer(caches, cs),
                                          !.cleared = {n \in DOMAIN caches :
                                                          /\ IsValid(caches[n], now)
                                                          /\ cs[n].data = None}]
                           ELSE IF calls[o].type # <<>> /\ up[calls[o].type] # upstream[calls[o].type]
                                THEN [calls[o] EXCEPT !.stable = FALSE]
                                ELSE calls[o]]
    /\ UNCHANGED <<now, config, last, fed, ops, client, probe>>

\* A mutation method that invalidates whether or not the upstream call succeeded.
AfterFailedMutationInvalidates(cs, cfg, operation) ==
    InvalidateCache(cs, cfg, operation)

\* What a mutation method whose upstream call was rejected leaves in the caches: the
\* error leaves the method at the await, before this.invalidateCache.
AfterFailedMutation(cs, cfg, operation) == cs

\* The upstream call fails: the error leaves the method before invalidateCache.
MutationFail(p) ==
    /\ calls[p].pc = "awaitMutation"
    /\ LET c == calls[p]
           cs == AfterFailedMutation(caches, config, OperationOf(c.method))
       IN  /\ caches' = cs
           /\ calls' = [calls EXCEPT ![p] =
                           [c EXCEPT !.pc = "failed",
                                     !.wrote = @ \/ TablesDiffer(caches, cs)]]
    /\ UNCHANGED <<now, config, last, fed, ops, upstream, client, probe>>

\* (type, params) handed to the list methods.
ListInputs ==
    { <<Items, << <<"limit", 1>> >> >>, <<Items, QActive>>,
      <<Items, << <<"cursor", 1>> >> >>, <<Sales, <<>> >> }

\* (type, id) handed to the get-by-id methods.
GetInputs == { <<Items, "b">>, <<Sales, "s">> }

\* (method, id) of the mutations.
Mutations == { <<"updateItem", "b">>, <<"voidSale", "s">> }

\* (method, arguments) of the uncached lookups.
SearchInputs ==
    { <<"search", << <<"query", "b">> >> >>,
      <<"suggestFieldValues",
        << <<"entity", "items">>, <<"field", "status">>, <<"value", "sold">> >> >> }

\* The CacheConfig values of the entry points: defaults, and caching switched off.
ClientConfigChoices == {p \in ConfigChoices : p.ttl = <<>>}

Init ==
    /\ now = 0
    /\ config \in {NewConfig(p) : p \in ClientConfigChoices}
    /\ caches = <<>>
    /\ last = NoCall
    /\ fed = [n \in CacheNames |-> {}]
    /\ ops = 0
    /\ upstream = (Items :> <<A1, Entity("b", "sold", "L2")>>)
                  @@ (Sales :> << Entity("s", "completed", "L1") >>)
    /\ calls = [p \in Callers |-> Idle]
    /\ client = NewClient
    /\ probe = NoProbe

Next ==
    \/ \E p \in Callers, in \in ListInputs : ListStart(p, in[1], in[2])
    \/ \E p \in Callers : ListPage(p)
    \/ \E p \in Callers : ListFail(p)
    \/ \E p \in Callers, type \in Types : RefreshStart(p, type)
    \/ \E p \in Callers, in \in GetInputs : GetStart(p, in[1], in[2])
    \/ \E p \in Callers : GetResponse(p)
    \/ \E p \in Callers : GetFail(p)
    \/ \E p \in Callers, in \in SearchInputs : SearchStart(p, in[1], in[2])
    \/ \E p \in Callers : SearchResponse(p)
    \/ \E p \in Callers : SearchFail(p)
    \/ \E p \in Callers, m \in Mutations : MutationStart(p, m[1], m[2])
    \/ \E p \in Callers : MutationResponse(p)
    \/ \E p \in Callers : MutationFail(p)

\* The clock stands still here: no default TTL elapses within a few calls, and
\* expiry is exercised on the CacheManager surface (SpecManager).
Spec == Init /\ [][Next]_vars

----------------------------------------------------------------------------
(* The CacheManager surface under short TTLs *)

MgrGetAllStats ==
    /\ ops < MaxOps
    /\ last' = Call("getAllStats", <<>>, <<>>, "", <<>>, Some(ManagerGetAllStats(caches)))
    /\ ops' = ops + 1
    /\ UNCHANGED <<now, config, caches, fed, upstream, calls, client, probe>>

\* TTLs the environment may set (CACHE_TTL_ITEMS, CACHE_TTL_SALES), in ticks.
ExpiryConfigChoices ==
    { [enabled |-> Some(TRUE), warningThreshold |-> Some(10000), ttl |-> t] :
        t \in { (Items :> 1), (Items :> 0), (Sales :> 1), (Sales :> 0) } }

InitExpiry ==
    /\ now = 0
    /\ config \in {NewConfig(p) : p \in ExpiryConfigChoices}
    /\ caches = <<>>
    /\ last = NoCall
    /\ fed = [n \in CacheNames |-> {}]
    /\ ops = 0
    /\ upstream = <<>>
    /\ calls = <<>>
    /\ client = NewClient
    /\ probe = NoProbe

NextExpiry ==
    \/ \E type \in Types, q \in {QActive, QLimitActive} : MgrGet(type, q)
    \/ \E type \in Types : MgrSet(type, QActive, <<A1>>)
    \/ \E type \in Types : MgrGetById(type, "a")
    \/ MgrGetAllStats
    \/ Tick

SpecExpiry == InitExpiry /\ [][NextExpiry]_vars

----------------------------------------------------------------------------
(* The CacheManager surface, one table followed through writes and time *)

\* (query, result list) pairs of the writes followed here: fetches that overlap
\* in one id.
StoreSetInputs ==
    { <<QActive, <<A1, B1>> >>, <<QActiveL1, <<A1>> >>, <<QSold, <<A2>> >> }

NextStore ==
    \/ \E q \in {QActive, QSold} : MgrGet(Items, q)
    \/ \E in \in StoreSetInputs : MgrSet(Items, in[1], in[2])
    \/ MgrGetById(Items, "a")
    \/ MgrSetById(Items, A2)
    \/ MgrInvalidate(<< Items >>)
    \/ MgrClearAll
    \/ Tick

SpecStore == InitManager /\ [][NextStore]_vars

----------------------------------------------------------------------------
(* The CachingClient, reads of items racing with an update of item a *)

\* A drain of two pages (the caller's limit of 1 sets the page size), a get of
\* item a, and updateItem on a, by two callers.
NextRace ==
    \/ \E p \in Callers : ListStart(p, Items, << <<"limit", 1>> >>)
    \/ \E p \in Callers : ListPage(p)
    \/ \E p \in Callers : GetStart(p, Items, "a")
    \/ \E p \in Callers : GetResponse(p)
    \/ \E p \in Callers : MutationStart(p, "updateItem", "a")
    \/ \E p \in Callers : MutationResponse(p)

SpecRace == Init /\ [][NextRace]_vars

----------------------------------------------------------------------------
(* The CachingClient, list calls over an API that answers every request *)

\* (type, params) of the list calls: two pages of one item each, one page, and
\* a drain that starts at the caller's cursor.
DrainInputs ==
    { <<Items, << <<"limit", 1>> >> >>, <<Items, QActive>>,
      <<Items, << <<"limit", 1>>, <<"cursor", 1>> >> >>, <<Sales, <<>> >> }

NextDrain ==
    \/ \E p \in Callers, in \in DrainInputs : ListStart(p, in[1], in[2])
    \/ \E p \in Callers : ListPage(p)

\* Every awaited request is answered: the promise of fetchFn resolves.
SpecDrain ==
    Init /\ [][NextDrain]_vars /\ \A p \in Callers : WF_vars(ListPage(p))

----------------------------------------------------------------------------
(* The CachingClient in a sequential run: every call returns before the next *)
(* one starts.  Here calls is the log of the calls made, oldest first.        *)

\* The do-while loop of fetchListWithCache from one request on: the pages it
\* concatenates.
RECURSIVE Drain(_, _, _)
Drain(entities, queryParams, allItems) ==
    LET response == UpstreamList(entities, queryParams)
        all == allItems \o response.data
    IN  IF response.next_cursor = None THEN all
        ELSE Drain(entities, SetKey(queryParams, "cursor", response.next_cursor[1]), all)

\* fetchListWithCache run to its return.
FetchListWithCache(cs, cfg, up, type, params, t) ==
    LET r == ManagerGet(cs, cfg, type, params, t) IN
    IF r.result # None
    THEN [caches |-> r.caches, result |-> r.result[1], hit |-> TRUE]
    ELSE LET allItems == Drain(up[type], Spread(<< <<"limit", 100>> >>, params), <<>>)
         IN  [caches |-> ManagerSet(r.caches, cfg, type, params, allItems, t),
              result |-> allItems, hit |-> FALSE]

\* fetchByIdWithCache run to its return (the entity exists upstream).
FetchByIdWithCache(cs, cfg, up, type, id, t) ==
    LET r == ManagerGetById(cs, cfg, type, id, t) IN
    IF r.result # None
    THEN [caches |-> r.caches, result |-> r.result[1], hit |-> TRUE]
    ELSE LET item == up[type][CHOOSE i \in DOMAIN up[type] : up[type][i].id = id]
         IN  [caches |-> ManagerSetById(r.caches, cfg, type, id, item, t),
              result |-> item, hit |-> FALSE]

\* One entry of the log.
Logged(kind, method, type, id, hit) ==
    [kind |-> kind, method |-> method, type |-> type, id |-> id, hit |-> hit]

SeqList(type, params) ==
    /\ ops < MaxCalls
    /\ ops' = ops + 1
    /\ LET r == FetchListWithCache(caches, config, upstream, type, params, now) IN
       /\ caches' = r.caches
       /\ client' = [lastRequestWasCached |-> r.hit,
                     lastCacheTimestamp |-> IF r.hit THEN StatsLastUpdated(r.caches, type)
                                                     ELSE Some(now)]
       /\ calls' = Append(calls, Logged("list", "list", type, "", r.hit))
    /\ UNCHANGED <<now, config, last, fed, upstream, probe>>

SeqGet(type, id) ==
    /\ ops < MaxCalls
    /\ ops' = ops + 1
    /\ \E i \in DOMAIN upstream[type] : upstream[type][i].id = id
    /\ LET r == FetchByIdWithCache(caches, config, upstream, type, id, now) IN
       /\ caches' = r.caches
       /\ client' = [lastRequestWasCached |-> r.hit,
                     lastCacheTimestamp |-> IF r.hit THEN StatsLastUpdated(r.caches, type)
                                                     ELSE Some(now)]
       /\ calls' = Append(calls, Logged("get", "get", type, id, r.hit))
    /\ UNCHANGED <<now, config, last, fed, upstream, probe>>

\* A mutation method whose upstream call succeeds: the call, then invalidateCache.
SeqMutate(method, id) ==
    /\ ops < MaxCalls
    /\ ops' = ops + 1
    /\ upstream' = UpstreamAfter(upstream, method, id)
    /\ caches' = InvalidateCache(caches, config, OperationOf(method))
    /\ calls' = Append(calls, Logged("mutation", method, MutationMethods[method].type,
                                     id, FALSE))
    /\ UNCHANGED <<now, config, last, fed, client, probe>>

\* (method, id) of the mutations made here: the item and sale methods.
SeqMutations ==
    { <<"createItem", "">>, <<"updateItem", "a">>, <<"deleteItem", "a">>,
      <<"restoreItem", "a">>, <<"bulkEditItems", "">>, <<"updateItemStatuses", "a">>,
      <<"createSale", "a">>, <<"updateSale", "s">>, <<"voidSale", "s">>,
      <<"refundSale", "s">> }

InitSequence ==
    /\ now = 0
    /\ config \in {NewConfig(p) : p \in ClientConfigChoices}
    /\ caches = <<>>
    /\ last = NoCall
    /\ fed = [n \in CacheNames |-> {}]
    /\ ops = 0
    /\ upstream = (Items :> <<A1, Entity("b", "sold", "L2")>>)
                  @@ (Sales :> << Entity("s", "completed", "L1") >>)
    /\ calls = <<>>
    /\ client = NewClient
    /\ probe = NoProbe

NextSequence ==
    \/ \E type \in Types : SeqList(type, <<>>)
    \/ \E in \in GetInputs \cup {<<Items, "a">>} : SeqGet(in[1], in[2])
    \/ \E m \in SeqMutations : SeqMutate(m[1], m[2])

SpecSequence == InitSequence /\ [][NextSequence]_vars

----------------------------------------------------------------------------
(* The manager surface and the mutation methods over caches of both types *)

\* Arguments of CacheManager.invalidate over both types: a list key, a wildcard
\* key, and the list of an operation of the invalidation table.
IsolationInvalidateArgs ==
    { << Items >>, << Sales >>, << <<"sale", ":*">> >>, INVALIDATION_MAP["update_item"] }

\* (method, id) of the mutations made here: one that lists the item caches only and
\* one that lists the sale caches and the item list.
IsolationMutations == { <<"updateItem", "a">>, <<"voidSale", "s">> }

NextIsolation ==
    \/ \E type \in Types : MgrGet(type, QActive)
    \/ \E type \in Types : MgrSet(type, QActive, <<A1>>)
    \/ \E type \in Types : MgrGetById(type, "a")
    \/ \E type \in Types : MgrSetById(type, B1)
    \/ \E types \in IsolationInvalidateArgs : MgrInvalidate(types)
    \/ \E m \in IsolationMutations : SeqMutate(m[1], m[2])
    \/ Tick

SpecIsolation == InitSequence /\ [][NextIsolation]_vars

----------------------------------------------------------------------------
(* The tool handlers of the MCP server, one tool call on a fresh CachingClient *)

Categories == <<"categories">>

\* An entity of the API with its created field: None when the field is missing,
\* else an ISO date-time <<day, hour>>.
Dated(id, status, created) ==
    [id |-> id, status |-> status, location |-> "L1", created |-> created]

\* new Date(s).getTime(), in hours: a date-only string <<day>> is midnight UTC of
\* that day, a date-time <<day, hour>> is that hour of the day.
NewDate(s) == IF Len(s) = 1 THEN 24 * s[1] ELSE 24 * s[1] + s[2]

\* args.key, None when the key is absent (undefined).
Arg(args, key) == IF HasKey(args, key) THEN Some(Lookup(args, key)) ELSE None

\* A filter that lets an entity without a created field pass.
DateFilterKeepsUndated(entities, date_from, date_to) ==
    SelectSeq(entities,
              LAMBDA e :
                 \/ e.created = None
                 \/ /\ ~(date_from # None /\ NewDate(e.created[1]) < NewDate(date_from[1]))
                    /\ ~(date_to # None /\ NewDate(e.created[1]) > NewDate(date_to[1])))

\* The filter callback of the handlers, date_from and date_to being options.
DateFilter(entities, date_from, date_to) ==
    SelectSeq(entities,
              LAMBDA e :
                 /\ e.created # None
                 /\ ~(date_from # None /\ NewDate(e.created[1]) < NewDate(date_from[1]))
                 /\ ~(date_to # None /\ NewDate(e.created[1]) > NewDate(date_to[1])))

Tools == {"list_items", "list_sales", "list_categories", "calculate_sales_totals"}

\* The handlers that take date_from, date_to and limit out of the arguments; the
\* handlers that pass args as they are; the tools that aggregate.
DateTools == {"list_items", "list_sales"}
AggregateTools == {"calculate_sales_totals"}

ToolType(tool) ==
    CASE tool = "list_items" -> Items
      [] tool = "list_categories" -> Categories
      [] OTHER -> Sales

\* const { date_from, date_to, limit, ...apiParams } = args
ApiParams(args) ==
    SelectSeq(args, LAMBDA pair : pair[1] \notin {"date_from", "date_to", "limit"})

\* The params the handler (or the aggregate method of CachingClient) passes to
\* CachingClient.listX.
ToolListParams(tool, args) ==
    IF tool \in DateTools THEN ApiParams(args) ELSE args

\* The response of a list tool over the list the client returned.
ListToolResponse(tool, args, fetched) ==
    LET date_from == IF tool \in DateTools THEN Arg(args, "date_from") ELSE None
        date_to == IF tool \in DateTools THEN Arg(args, "date_to") ELSE None
        limit == IF tool \in DateTools THEN Arg(args, "limit") ELSE None
        filtered == IF date_from # None \/ date_to # None
                    THEN DateFilter(fetched, date_from, date_to)
                    ELSE fetched
        filtersApplied == (IF date_from # None THEN <<"date_from">> ELSE <<>>)
                          \o (IF date_to # None THEN <<"date_to">> ELSE <<>>)
        limited == IF limit # None /\ limit # Some(0)
                   THEN SubSeq(filtered, 1, Min(limit[1], Len(filtered)))
                   ELSE filtered
    IN  [data |-> limited, total_count |-> Len(limited),
         client_filtered |-> filtersApplied # <<>>,
         filters_applied |-> filtersApplied]

\* ConsignCloudClient.calculateSalesTotals: the query it drains with, and what it
\* reports of the drained sales.
AggregateQueryParams(args) ==
    << <<"limit", 100>> >>
       \o SelectSeq(args, LAMBDA pair : pair[1] \in {"status", "location"})

AggregateResult(args, allSales) ==
    LET date_from == Arg(args, "date_from")
        date_to == Arg(args, "date_to")
        kept == IF date_from # None \/ date_to # None
                THEN DateFilter(allSales, date_from, date_to)
                ELSE allSales
    IN  [total_sales |-> Len(kept),
         filters_applied |-> [i \in DOMAIN args |-> args[i][1]]]

\* The request arrives: the handler runs up to the first await inside listX.
ToolStart ==
    /\ probe.fn \in Tools
    /\ probe.results = <<>>
    /\ calls["c1"].pc = "idle"
    /\ ListStart("c1", ToolType(probe.fn), ToolListParams(probe.fn, probe.args))

\* A list tool: the list is back, the handler filters, cuts and answers.
ToolRespond ==
    /\ probe.fn \in Tools \ AggregateTools
    /\ probe.results = <<>>
    /\ calls["c1"].pc = "done"
    /\ probe' = [probe EXCEPT !.results =
                    << ListToolResponse(probe.fn, probe.args, calls["c1"].result[1]) >>]
    /\ UNCHANGED <<now, config, caches, last, fed, ops, upstream, calls, client>>

\* An aggregate tool: the sales are cached, the base client starts its own drain.
AggregateStart ==
    /\ probe.fn \in AggregateTools
    /\ calls["c1"].pc = "done"
    /\ calls["c1"].method = "list"
    /\ LET queryParams == AggregateQueryParams(probe.args) IN
       calls' = [calls EXCEPT !["c1"] =
                    [@ EXCEPT !.pc = "awaitAggregate", !.method = "aggregate",
                              !.queryParams = queryParams, !.allItems = <<>>,
                              !.requests = Append(@, queryParams)]]
    /\ UNCHANGED <<now, config, caches, last, fed, ops, upstream, client, probe>>

\* A page of the base client's drain arrives; after the last one the totals are
\* computed and the handler answers.
AggregatePage ==
    /\ calls["c1"].pc = "awaitAggregate"
    /\ UpstreamAccepts(calls["c1"].queryParams)
    /\ LET c == calls["c1"]
           response == UpstreamList(upstream[c.type], c.queryParams)
           allSales == c.allItems \o response.data
           cursor == response.next_cursor
       IN  IF cursor # None
           THEN /\ calls' = [calls EXCEPT !["c1"] =
                               [c EXCEPT !.allItems = allSales,
                                         !.queryParams = SetKey(@, "cursor", cursor[1]),
                                         !.requests =
                                            Append(@, SetKey(c.queryParams, "cursor", cursor[1]))]]
                /\ probe' = probe
           ELSE /\ calls' = [calls EXCEPT !["c1"] =
                               [c EXCEPT !.pc = "done", !.allItems = allSales]]
                /\ probe' = [probe EXCEPT !.results =
                                << AggregateResult(probe.args, allSales) >>]
    /\ UNCHANGED <<now, config, caches, last, fed, ops, upstream, client>>

\* An awaited request is rejected: the handler's catch answers with the error.
ToolError ==
    /\ probe.fn \in Tools
    /\ probe.results = <<>>
    /\ \/ /\ calls["c1"].pc = "awaitList"
          /\ ListFail("c1")
       \/ /\ calls["c1"].pc = "awaitAggregate"
          /\ calls' = [calls EXCEPT !["c1"].pc = "failed"]
          /\ UNCHANGED <<now, config, caches, last, fed, ops, upstream, client, probe>>

\* The arguments a caller may send: each key absent or with one of its values.
ToolArgChoices ==
    << <<"status", {"completed"}>>, <<"date_from", {<<2>>}>>,
       <<"date_to", {<<2>>, <<3>>}>>, <<"limit", {1, 101}>> >>

RECURSIVE ArgsFrom(_)
ArgsFrom(i) ==
    IF i > Len(ToolArgChoices) THEN { <<>> }
    ELSE LET rest == ArgsFrom(i + 1) IN
         rest \cup { << <<ToolArgChoices[i][1], v>> >> \o r :
                        v \in ToolArgChoices[i][2], r \in rest }

\* The keys of each tool's input schema (of those chosen from).
ToolKeys(tool) ==
    CASE tool \in DateTools -> {"status", "date_from", "date_to", "limit"}
      [] tool = "list_categories" -> {"limit"}
      [] OTHER -> {"status", "date_from", "date_to"}

ToolCalls ==
    { [fn |-> tool, args |-> a, results |-> <<>>] :
        tool \in Tools, a \in ArgsFrom(1) }

InitTools ==
    /\ now = 0
    /\ config \in {NewConfig(p) : p \in ClientConfigChoices}
    /\ caches = <<>>
    /\ last = NoCall
    /\ fed = [n \in CacheNames |-> {}]
    /\ ops = 0
    /\ upstream = (Items :> << Dated("i1", "active", Some(<<2, 10>>)),
                               Dated("i2", "completed", None),
                               Dated("i3", "completed", Some(<<3, 0>>)) >>)
                  @@ (Sales :> << Dated("s1", "completed", Some(<<1, 10>>)),
                                  Dated("s2", "completed", Some(<<2, 0>>)),
                                  Dated("s3", "voided", None),
                                  Dated("s4", "completed", Some(<<2, 10>>)) >>)
                  @@ (Categories :> << Dated("k1", "active", None),
                                       Dated("k2", "active", None) >>)
    /\ calls = [p \in Callers |-> Idle]
    /\ client = NewClient
    /\ probe \in {c \in ToolCalls : Keys(c.args) \subseteq ToolKeys(c.fn)}

NextTools ==
    \/ ToolStart
    \/ ListPage("c1")
    \/ ToolRespond
    \/ AggregateStart
    \/ AggregatePage
    \/ ToolError

SpecTools == InitTools /\ [][NextTools]_vars

----------------------------------------------------------------------------
(* The CacheManager surface under a small warningThreshold *)

\* CACHE_WARNING_THRESHOLD set to one or two entities.
WarnConfigChoices ==
    { [enabled |-> Some(TRUE), warningThreshold |-> Some(w), ttl |-> <<>>] : w \in {1, 2} }

InitWarn ==
    /\ now = 0
    /\ config \in {NewConfig(p) : p \in WarnConfigChoices}
    /\ caches = <<>>
    /\ last = NoCall
    /\ fed = [n \in CacheNames |-> {}]
    /\ ops = 0
    /\ upstream = <<>>
    /\ calls = <<>>
    /\ client = NewClient
    /\ probe = NoProbe

SpecWarn == InitWarn /\ [][NextStore]_vars

----------------------------------------------------------------------------
(* checkThreshold applied on its own to counts around the tiers *)

\* The warningThreshold values tried: the smallest, the default, one between the
\* fixed tiers and one above both; none given, and 0.
ThresholdChoices == {None, Some(0), Some(1), Some(10000), Some(60000), Some(200000)}

\* The counts tried: just below, at and just above every tier and threshold.
CountChoices ==
    {0} \cup UNION { {n - 1, n, n + 1} :
                       n \in {1, 10000, WarningCount, 60000, CriticalCount, 200000} }

ApplyCheckThreshold ==
    /\ probe.fn = "none"
    /\ probe' = [probe EXCEPT !.fn = "checkThreshold",
                              !.results = << CheckThreshold(probe.args[1],
                                                            config.warningThreshold) >>]
    /\ UNCHANGED <<now, config, caches, last, fed, ops, upstream, calls, client>>

InitThreshold ==
    /\ now = 0
    /\ config \in {NewConfig([enabled |-> None, warningThreshold |-> w, ttl |-> <<>>]) :
                      w \in ThresholdChoices}
    /\ caches = <<>>
    /\ last = NoCall
    /\ fed = [n \in CacheNames |-> {}]
    /\ ops = 0
    /\ upstream = <<>>
    /\ calls = <<>>
    /\ client = NewClient
    /\ probe \in {[NoProbe EXCEPT !.args = <<count>>] : count \in CountChoices}

NextThreshold == ApplyCheckThreshold

SpecThreshold == InitThreshold /\ [][NextThreshold]_vars

----------------------------------------------------------------------------
(* The helper functions of BulkCache, applied on their own *)

\* The values a filter mapping may hold per key.
ParamValues ==
    [status |-> {"active", "sold"}, location |-> {"L1"}, limit |-> {1, 100}, cursor |-> {1}]

ParamPairs == UNION { {<<k, v>> : v \in ParamValues[k]} : k \in DOMAIN ParamValues }

\* Every mapping of at most MaxParams keys, in every insertion order.
ParamPool ==
    UNION { {params \in [1..n -> ParamPairs] :
                \A i, j \in 1..n : i # j => params[i][1] # params[j][1]} : n \in 0..MaxParams }

\* serializeQuery applied to each of the two mappings held in probe.
SerializeBoth ==
    /\ probe.fn = "none"
    /\ probe' = [probe EXCEPT !.fn = "serializeQuery",
                              !.results = <<SerializeQuery(probe.args[1]),
                                            SerializeQuery(probe.args[2])>>]
    /\ UNCHANGED <<now, config, caches, last, fed, ops, upstream, calls, client>>

InitQuery ==
    /\ now = 0
    /\ config = NewConfig([enabled |-> None, warningThreshold |-> None, ttl |-> <<>>])
    /\ caches = <<>>
    /\ last = NoCall
    /\ fed = [n \in CacheNames |-> {}]
    /\ ops = 0
    /\ upstream = <<>>
    /\ calls = <<>>
    /\ client = NewClient
    /\ probe \in {[NoProbe EXCEPT !.args = <<a, b>>] : a, b \in ParamPool}

NextQuery == SerializeBoth

SpecQuery == InitQuery /\ [][NextQuery]_vars

----------------------------------------------------------------------------
(* serializeQuery down to the text JSON.stringify produces *)

\* The scalar values a parameter parsed from JSON may hold: a string is the
\* sequence of its characters, a number the sequence of its digits.
JsonString(chars) == <<"string", chars>>

JsonNumber(digits) == <<"number", digits>>

JsonNull == <<"null">>

JsonTrue == <<"true">>

\* A string written without escaping its quotes and backslashes.
RECURSIVE EscapeNothing(_)
EscapeNothing(chars) ==
    IF chars = <<>> THEN <<>> ELSE <<Head(chars)>> \o EscapeNothing(Tail(chars))

\* The characters of a string as JSON.stringify writes them between the quotes.
RECURSIVE EscapeChars(_)
EscapeChars(chars) ==
    IF chars = <<>> THEN <<>>
    ELSE (IF Head(chars) \in {"\"", "\\"} THEN <<"\\", Head(chars)>> ELSE <<Head(chars)>>)
         \o EscapeChars(Tail(chars))

\* JSON.stringify of a scalar.
JsonStringifyValue(v) ==
    CASE v[1] = "string" -> <<"\"">> \o EscapeChars(v[2]) \o <<"\"">>
      [] v[1] = "number" -> v[2]
      [] v[1] = "null" -> <<"n", "u", "l", "l">>
      [] v[1] = "true" -> <<"t", "r", "u", "e">>

\* The characters of the keys in use.
KeyChars ==
    [a |-> <<"a">>, b |-> <<"b">>, limit |-> <<"l", "i", "m", "i", "t">>]

\* Object.keys(params).sort() over the keys in use here.
TextKeyOrder == <<"a", "b", "limit">>

\* The members of an object, in the order of its keys, separated by commas.
RECURSIVE JsonStringifyMembers(_)
JsonStringifyMembers(pairs) ==
    IF pairs = <<>> THEN <<>>
    ELSE <<"\"">> \o KeyChars[Head(pairs)[1]] \o <<"\"", ":">>
         \o JsonStringifyValue(Head(pairs)[2])
         \o (IF Tail(pairs) = <<>> THEN <<>> ELSE <<",">> \o JsonStringifyMembers(Tail(pairs)))

\* serializeQuery: the keys sorted, limit and cursor left out, the rest written by
\* JSON.stringify.
SerializeQueryText(params) ==
    LET sortedKeys == SelectSeq(TextKeyOrder, LAMBDA k : HasKey(params, k))
        kept == SelectSeq(sortedKeys, LAMBDA k : k # "limit" /\ k # "cursor")
        normalized == [i \in 1..Len(kept) |-> <<kept[i], Lookup(params, kept[i])>>]
    IN  <<"{">> \o JsonStringifyMembers(normalized) \o <<"}">>

\* A string value that spells the end of one member and the start of another.
Forged == JsonString(<<"x", "\"", ",", "\"", "b", "\"", ":", "\"", "x">>)

\* The values a filter key may hold, and those of limit.
TextValues ==
    { JsonString(<<"x">>), JsonString(<<"1">>), JsonNumber(<<"1">>), JsonNull,
      JsonString(<<"n", "u", "l", "l">>), JsonTrue, Forged }

\* Every mapping over the keys a, b and limit of at most MaxParams keys, the
\* filter keys in either insertion order.
TextParamPool ==
    LET pairs == {<<k, v>> : k \in {"a", "b"}, v \in TextValues}
                 \cup {<<"limit", JsonNumber(<<"1">>)>>}
    IN  UNION { {params \in [1..n -> pairs] :
                    /\ \A i, j \in 1..n : i # j => params[i][1] # params[j][1]
                    /\ \A i \in 1..n : params[i][1] = "limit" => i = n} :
                n \in 0..Min(MaxParams, 3) }

\* serializeQuery applied to each of the two mappings held in probe.
SerializeTextBoth ==
    /\ probe.fn = "none"
    /\ probe' = [probe EXCEPT !.fn = "serializeQuery",
                              !.results = <<SerializeQueryText(probe.args[1]),
                                            SerializeQueryText(probe.args[2])>>]
    /\ UNCHANGED <<now, config, caches, last, fed, ops, upstream, calls, client>>

InitFingerprint ==
    /\ now = 0
    /\ config = NewConfig([enabled |-> None, warningThreshold |-> None, ttl |-> <<>>])
    /\ caches = <<>>
    /\ last = NoCall
    /\ fed = [n \in CacheNames |-> {}]
    /\ ops = 0
    /\ upstream = <<>>
    /\ calls = <<>>
    /\ client = NewClient
    /\ probe \in {[NoProbe EXCEPT !.args = <<a, b>>] : a, b \in TextParamPool}

NextFingerprint == SerializeTextBoth

SpecFingerprint == InitFingerprint /\ [][NextFingerprint]_vars

----------------------------------------------------------------------------
(* Properties of the CacheManager surface (SpecManager) *)

PaginationKeys == {"limit", "cursor"}

\* The compatibility rule as the design states it: every non-pagination key of the
\* query is either absent from the stored record or held with the identical value.
Compatible(record, queryParams) ==
    \A k \in Keys(queryParams) \ PaginationKeys :
        ~HasKey(record.params, k) \/ Lookup(record.params, k) = Lookup(queryParams, k)

HasCompatibleRecord(entry, queryParams) ==
    \E n \in DOMAIN entry.queries : Compatible(entry.queries[n], queryParams)

Payloads(entries) == [i \in 1..Len(entries) |-> entries[i].data]

IdsOf(items) == {items[i].id : i \in DOMAIN items}

Table(type) == caches[type].data[1]

\* C1: on a valid table that knows the fingerprint of q, get(q) returns exactly the
\* payloads of the Entity Records having at least one Query Record compatible with q.
C1_GetReturnsCompatible ==
    (/\ last.op = "get"
     /\ TableValid(caches, last.type, now)
     /\ SerializeQuery(last.params) \in Table(last.type).uniqueQueries)
    => last.result =
         Some(Payloads(SelectSeq(Table(last.type).entries,
                                 LAMBDA e : HasCompatibleRecord(e, last.params))))

\* A hit that returns an entity on the strength of a record that omits a key of the
\* query, and leaves out an entity whose records all hold another value for it.
C1_Witness ==
    /\ last.op = "get"
    /\ TableValid(caches, last.type, now)
    /\ last.result # None
    /\ \E i \in DOMAIN Table(last.type).entries :
          LET e == Table(last.type).entries[i] IN
          /\ \E j \in DOMAIN last.result[1] : last.result[1][j].id = e.id
          /\ \A n \in DOMAIN e.queries : Keys(e.queries[n].params) # Keys(last.params)
    /\ \E i \in DOMAIN Table(last.type).entries :
          \A j \in DOMAIN last.result[1] :
              last.result[1][j].id # Table(last.type).entries[i].id

\* C2: on a valid table, get(q) is a miss whenever no set since the table was created
\* was given a query with q's fingerprint, whatever entities the table holds.
C2_MissOnUnknownFingerprint ==
    (/\ last.op = "get"
     /\ TableValid(caches, last.type, now)
     /\ \A p \in fed[last.type] : SerializeQuery(p) # SerializeQuery(last.params))
    => last.result = None

\* A miss on a valid table that holds an entity compatible with the query.
C2_Witness ==
    /\ last.op = "get"
    /\ TableValid(caches, last.type, now)
    /\ last.result = None
    /\ \E i \in DOMAIN Table(last.type).entries :
          HasCompatibleRecord(Table(last.type).entries[i], last.params)

\* What get and getById answer on cache c at time t, as id sets (None for a miss).
GetIds(c, queryParams, t) ==
    LET r == BulkGet(c, queryParams, t).result
    IN  IF r = None THEN None ELSE Some(IdsOf(r[1]))

\* C5: invalidate("items:*") clears the entries stored by setById and leaves what
\* get answers from the bulk items table untouched; invalidate("items") clears the
\* bulk table and leaves what getById answers untouched.
C5_WildcardScope ==
    [][ /\ (/\ last'.op = "invalidate"
            /\ last'.params = << <<"items", ":*">> >>
            /\ Items \in DOMAIN caches)
           => \A q \in Queries :
                 GetIds(caches'[Items], q, now) = GetIds(caches[Items], q, now)
        /\ (/\ last'.op = "invalidate"
            /\ last'.params = << Items >>
            /\ Items \in DOMAIN caches)
           => \A id \in Ids :
                 BulkGetById(caches'[Items], id, now).result
                    = BulkGetById(caches[Items], id, now).result
      ]_vars

\* C6: once the clock has reached a table's expiry, get is a miss, and the next set
\* leaves a table that knows only the new query's fingerprint and holds only the new
\* items, each with the new query as its only Query Record.
C6_ExpiryThenFreshTable ==
    /\ (last.op = "get" /\ last.expiredBefore) => last.result = None
    /\ (last.op = "set" /\ last.expiredBefore /\ config.enabled)
       => /\ Table(last.type).uniqueQueries = {SerializeQuery(last.params)}
          /\ Table(last.type).lastUpdated = last.at
          /\ Table(last.type).expiresAt = last.at + caches[last.type].ttlSeconds
          /\ IdsOf(Payloads(Table(last.type).entries)) = IdsOf(last.items)
          /\ \A i \in DOMAIN Table(last.type).entries :
                LET e == Table(last.type).entries[i] IN
                /\ \E j \in DOMAIN last.items : last.items[j] = e.data
                /\ \A n \in DOMAIN e.queries :
                      e.queries[n] = [params |-> last.params, fetchedAt |-> last.at]

\* A set on an expired table that held an id the new item list does not contain.
C6_Witness ==
    /\ last.op = "set"
    /\ last.expiredBefore
    /\ config.enabled
    /\ Len(Table(last.type).entries) = 1

\* The by-id TTL the constructor defaults give each type.
IdTtlKey(type) == IF type = Items THEN <<"item", ":id">> ELSE <<"sale", ":id">>

\* C7: an entity stored by id stops being served from cache ttl.T:id after it was
\* stored (30 min for items, 15 min for sales by default).
C7_ByIdTtl ==
    (/\ last.op = "getById"
     /\ last.result # None
     /\ TableValid(caches, last.type, now))
    => LET e == Table(last.type).entries[EntryIndex(Table(last.type).entries, last.id)]
       IN  (/\ Len(e.queries) = 1
            /\ e.queries[1].params = << <<"id", last.id>> >>)
           => last.at < e.queries[1].fetchedAt + config.ttl[IdTtlKey(last.type)]

\* C8: storing by id an entity that was not in the valid table adds no fingerprint
\* and does not change the ids get(q) returns for any q whose fingerprint is known.
C8_SetByIdLeavesQueriesAlone ==
    [][ (/\ last'.op = "setById"
         /\ TableValid(caches, last'.type, now)
         /\ EntryIndex(Table(last'.type).entries, last'.id) = 0)
        => /\ caches'[last'.type].data[1].uniqueQueries = Table(last'.type).uniqueQueries
           /\ \A q \in Queries :
                 SerializeQuery(q) \in Table(last'.type).uniqueQueries
                 => GetIds(caches'[last'.type], q, now) = GetIds(caches[last'.type], q, now)
      ]_vars

\* The item of a list that carries the id.
ItemWithId(items, id) == items[CHOOSE j \in DOMAIN items : items[j].id = id]

\* C13: a set that returns an id already in the valid table makes the entry's payload
\* the new item as a whole and appends the new query to the entry's history, after
\* the records it already held.
C13_SetReplacesPayloadAppendsQuery ==
    [][ (/\ ops' = ops + 1
         /\ last'.op = "set"
         /\ config.enabled
         /\ TableValid(caches, last'.type, now))
        => \A i \in DOMAIN Table(last'.type).entries :
              LET old == Table(last'.type).entries[i]
                  new == caches'[last'.type].data[1].entries[i]
              IN  old.id \in IdsOf(last'.items)
                  => /\ new.id = old.id
                     /\ new.data = ItemWithId(last'.items, old.id)
                     /\ new.queries = Append(old.queries,
                                             [params |-> last'.params, fetchedAt |-> now])
      ]_vars

\* Id a was fetched active under one query and then sold under another.
C13_Witness ==
    /\ last.op = "set"
    /\ last.validBefore
    /\ config.enabled
    /\ \E i \in DOMAIN Table(last.type).entries :
          LET e == Table(last.type).entries[i] IN
          /\ e.data = A2
          /\ Len(e.queries) = 2
          /\ e.queries[1].params = QActiveL1
          /\ e.queries[2].params = QSold

\* Whether sequence s begins with sequence r.
IsPrefix(r, s) == Len(r) <= Len(s) /\ SubSeq(s, 1, Len(r)) = r

\* C14: while a table stays valid, no step removes or replaces a Query Record of an
\* id that remains in it: the history an entry had is a prefix of the one it has.
C14_HistoryOnlyGrows ==
    [][ \A n \in DOMAIN caches :
          (IsValid(caches[n], now) /\ IsValid(caches'[n], now'))
          => \A i \in DOMAIN caches[n].data[1].entries :
                \A k \in DOMAIN caches'[n].data[1].entries :
                   caches'[n].data[1].entries[k].id = caches[n].data[1].entries[i].id
                   => IsPrefix(caches[n].data[1].entries[i].queries,
                               caches'[n].data[1].entries[k].queries)
      ]_vars

\* C17: invalidate leaves the named caches without a table, so that every get and
\* getById on them is a miss; invalidating again changes nothing; and a cache
\* without a table stays so until a set or setById for it.
C17_InvalidateDiscardsIdempotent ==
    [][ /\ (ops' = ops + 1 /\ last'.op = "invalidate")
           => /\ \A i \in DOMAIN last'.params :
                    LET n == InvalidationTarget(last'.params[i]) IN
                    /\ n \in DOMAIN caches'
                    /\ caches'[n].data = None
                    /\ \A q \in Queries :
                          ManagerGet(caches', config, n, q, now').result = None
                    /\ \A id \in Ids :
                          ManagerGetById(caches', config, n, id, now').result = None
              /\ ManagerInvalidate(caches', config, last'.params) = caches'
        /\ \A n \in DOMAIN caches :
              (/\ caches[n].data = None
               /\ ~(ops' = ops + 1 /\ last'.op \in {"set", "setById"} /\ last'.type = n))
              => caches'[n].data = None
      ]_vars

\* An invalidate of a cache that had answered a hit.
C17_Witness ==
    /\ last.op = "invalidate"
    /\ Items \in DOMAIN caches
    /\ caches[Items].hits > 0
    /\ caches[Items].data = None

\* C23: while a table stays valid its set of known fingerprints only grows: a
\* get, set, getById or setById removes none, and a fingerprint is lost only
\* when the clock passes the expiry or the table is invalidated.
C23_FingerprintsOnlyGrow ==
    [][LET before == KnownQueries(caches, Items, now)
           after == KnownQueries(caches', Items, now')
       IN  /\ (ops' = ops + 1 /\ last'.op \in {"get", "set", "getById", "setById"})
                 => before \subseteq after
           /\ ~(before \subseteq after)
                 => \/ now' # now
                    \/ (ops' = ops + 1 /\ last'.op \in {"invalidate", "clearAll"})]_vars

C23_Witness ==
    /\ last.op = "setById"
    /\ last.validBefore
    /\ Cardinality(KnownQueries(caches, Items, now)) >= 2

\* C24: the hit and miss counters of a per-type cache are never reset or
\* decreased, so the hit rate getStats reports is hits/(hits+misses) over all
\* the lookups the cache has received since it was constructed: every get and
\* getById of an enabled manager adds one to hits + misses of its cache (to hits
\* exactly when it returns a value), and no other step - invalidate, clearAll,
\* expiry, re-creation of the table - changes either counter.
Hits(cs, n) == IF n \in DOMAIN cs THEN cs[n].hits ELSE 0

Misses(cs, n) == IF n \in DOMAIN cs THEN cs[n].misses ELSE 0

IsLookup == ops' = ops + 1 /\ last'.op \in {"get", "getById"} /\ config.enabled

C24_HitRateOverAllLookups ==
    [][\A n \in CacheNames :
          IF IsLookup /\ last'.type = n
          THEN /\ Hits(caches', n) + Misses(caches', n)
                    = Hits(caches, n) + Misses(caches, n) + 1
               /\ Hits(caches', n)
                    = Hits(caches, n) + (IF last'.result # None THEN 1 ELSE 0)
          ELSE /\ Hits(caches', n) = Hits(caches, n)
               /\ Misses(caches', n) = Misses(caches, n)]_vars

\* C25: after set(T, q, items) on an enabled manager, get(T, q) is a hit that
\* contains every item of items, whatever the table held before; and while the
\* table is neither expired nor invalidated, a query that hits (one whose
\* fingerprint the table knows) keeps hitting with at least the same ids and no
\* id leaves the table.
WouldGet(cs, q, t) == ManagerGet(cs, config, Items, q, t).result

C25_SetThenGetHits ==
    [][/\ (ops' = ops + 1 /\ last'.op = "set" /\ config.enabled)
            => LET r == WouldGet(caches', last'.params, now') IN
               /\ r # None
               /\ \A i \in DOMAIN last'.items :
                     \E j \in DOMAIN r[1] : r[1][j] = last'.items[i]
       /\ (/\ TableValid(caches, Items, now)
           /\ TableValid(caches', Items, now')
           /\ ~(ops' = ops + 1 /\ last'.op \in {"invalidate", "clearAll"}))
            => /\ IdsOf(Payloads(caches[Items].data[1].entries))
                    \subseteq IdsOf(Payloads(caches'[Items].data[1].entries))
               /\ \A q \in KnownQueries(caches, Items, now) :
                     LET before == WouldGet(caches, q, now)
                         after == WouldGet(caches', q, now')
                     IN  before # None
                           => after # None /\ IdsOf(before[1]) \subseteq IdsOf(after[1])]_vars

C25_Witness ==
    /\ last.op = "setById"
    /\ last.validBefore
    /\ now > 0
    /\ WouldGet(caches, QActive, now) # None
    /\ Len(WouldGet(caches, QActive, now)[1]) = 2
    /\ Len(caches[Items].data[1].entries) = 2

\* The ids of the item lists passed to set under the fingerprint of q since the
\* table of the type was created (every query of SetInputs is written with one list).
SetUnder(type, q) ==
    UNION { IdsOf(in[2]) : in \in {i \in SetInputs :
                                      /\ i[1] \in fed[type]
                                      /\ SerializeQuery(i[1]) = SerializeQuery(q)} }

\* C31: every entity a hit for q returns was part of an item list passed to set
\* under q's fingerprint; an entity the table holds only through another query
\* (or through setById) is not in the answer.
C31_HitReturnsOnlyOwnResults ==
    (last.op = "get" /\ last.result # None /\ TableValid(caches, last.type, now))
    => IdsOf(last.result[1]) \subseteq SetUnder(last.type, last.params)

\* C33: the expiry of a table is fixed when the table is created, one TTL after
\* that moment: a set or setById that creates the table (none, or an expired one,
\* was there) sets expiresAt to the time of the call plus the cache's TTL; every
\* step that finds the table valid and leaves a table in place - set and setById
\* among them - leaves expiresAt as it was, set stamping lastUpdated only; and
\* get and getById return a value only before expiresAt.
C33_ExpiryFixedAtCreation ==
    [][/\ (/\ TableValid(caches, Items, now)
            /\ caches'[Items].data # None)
            => caches'[Items].data[1].expiresAt = caches[Items].data[1].expiresAt
       /\ (/\ ops' = ops + 1 /\ last'.op \in {"set", "setById"} /\ config.enabled
            /\ ~TableValid(caches, Items, now))
            => caches'[Items].data[1].expiresAt = now + caches'[Items].ttlSeconds
       /\ (/\ ops' = ops + 1 /\ last'.op = "set" /\ config.enabled
            /\ TableValid(caches, Items, now))
            => /\ caches'[Items].data[1].lastUpdated = now
               /\ caches'[Items].ttlSeconds = caches[Items].ttlSeconds
       /\ (/\ ops' = ops + 1 /\ last'.op = "setById" /\ config.enabled
            /\ TableValid(caches, Items, now))
            => /\ caches'[Items].data[1].lastUpdated = caches[Items].data[1].lastUpdated
               /\ caches'[Items].data[1].uniqueQueries = caches[Items].data[1].uniqueQueries
       /\ (IsLookup /\ last'.result # None)
            => now < caches[Items].data[1].expiresAt]_vars

\* A get that misses on an expired table although the table holds an entity that
\* a set on the valid table fetched less than one TTL ago.
C33_Witness ==
    /\ last.op = "get"
    /\ last.expiredBefore
    /\ last.result = None
    /\ \E i \in DOMAIN Table(Items).entries :
          \E n \in DOMAIN Table(Items).entries[i].queries :
             LET fetchedAt == Table(Items).entries[i].queries[n].fetchedAt IN
             /\ fetchedAt > Table(Items).lastUpdated - 1
             /\ fetchedAt + caches[Items].ttlSeconds > Table(Items).expiresAt
             /\ now < fetchedAt + caches[Items].ttlSeconds

\* C36: every get and getById of an enabled manager increments exactly one of the
\* two counters of the addressed cache - hits when it returns a value, misses when
\* it returns null - whether the table is valid, absent or expired.
C36_EveryLookupCounted ==
    [][IsLookup
       => IF last'.result # None
          THEN /\ Hits(caches', last'.type) = Hits(caches, last'.type) + 1
               /\ Misses(caches', last'.type) = Misses(caches, last'.type)
          ELSE /\ Misses(caches', last'.type) = Misses(caches, last'.type) + 1
               /\ Hits(caches', last'.type) = Hits(caches, last'.type)]_vars

----------------------------------------------------------------------------
(* Properties of the CachingClient (Spec) *)

ElementsOf(seq) == {seq[i] : i \in DOMAIN seq}

\* C3: a list miss returns, and stores under the query's fingerprint, the whole
\* upstream list for the query's filters, first page to last, whatever limit or
\* cursor the caller's params carry (the API's data not changing meanwhile).
C3_DrainStoresFullList ==
    \A p \in Callers :
        LET c == calls[p] IN
        (c.pc = "done" /\ c.method = "list" /\ ~c.hit /\ c.stable)
        => /\ c.result = Some(Filtered(upstream[c.type], c.params))
           /\ config.enabled
              => /\ c.readBack # None
                 /\ ElementsOf(c.result[1]) \subseteq ElementsOf(c.readBack[1])

\* C4: when a mutation returns, every cache its operation names is cleared; after
\* voidSale the next list of sales, get of the sale and list of items all miss.
C4_MutationInvalidates ==
    [][ \A p \in Callers :
          (calls[p].pc = "awaitMutation" /\ calls'[p].pc = "done")
          => /\ \A i \in DOMAIN INVALIDATION_MAP[OperationOf(calls[p].method)] :
                  LET n == InvalidationTarget(INVALIDATION_MAP[OperationOf(calls[p].method)][i])
                  IN  n \in DOMAIN caches' /\ caches'[n].data = None
             /\ calls[p].method = "voidSale"
                => /\ \A in \in ListInputs :
                        ManagerGet(caches', config, in[1], in[2], now').result = None
                   /\ ManagerGetById(caches', config, Sales, calls[p].id, now').result = None
      ]_vars

\* A voidSale that returned and found both the sales and the items table valid.
C4_Witness ==
    \E p \in Callers :
        /\ calls[p].pc = "done"
        /\ calls[p].method = "voidSale"
        /\ {Items, Sales} \subseteq calls[p].cleared

\* C9: of two list calls for the same uncached query that both missed and both
\* drained, the one whose set ran last leaves a table from which a get for that query
\* returns the result set it stored (stated for queries without a cursor key, whose
\* drain starts at the first page).
C9_LastWriteWins ==
    \A p \in Callers :
        LET c == calls[p] IN
        (/\ c.pc = "done" /\ c.method = "list" /\ ~c.hit /\ c.ranLast
         /\ config.enabled /\ ~HasKey(c.params, "cursor"))
        => /\ c.readBack # None
           /\ ElementsOf(c.readBack[1]) = ElementsOf(c.result[1])

\* C10: a list call that failed at an upstream page never called set and changed no
\* table, however many pages it had fetched.
C10_FailedDrainWritesNothing ==
    \A p \in Callers :
        (calls[p].pc = "failed" /\ calls[p].method = "list")
        => calls[p].sets = 0 /\ ~calls[p].wrote

\* A drain that failed after a page had arrived, with a valid table in place.
C10_Witness ==
    \E p \in Callers :
        /\ calls[p].pc = "failed"
        /\ calls[p].method = "list"
        /\ calls[p].allItems # <<>>
        /\ TableValid(caches, calls[p].type, now)

\* C11: a mutation whose upstream call fails performs no invalidation: the step that
\* ends it in failure leaves every cache exactly as it was, and the call has changed
\* no table.
C11_FailedMutationKeepsCaches ==
    [][ \A p \in Callers :
          (calls[p].pc = "awaitMutation" /\ calls'[p].pc = "failed")
          => /\ caches' = caches
             /\ ~calls'[p].wrote
             /\ calls'[p].cleared = {}
      ]_vars

\* A failed voidSale with the tables it would have cleared still valid.
C11_Witness ==
    \E p \in Callers :
        /\ calls[p].pc = "failed"
        /\ calls[p].method = "voidSale"
        /\ TableValid(caches, Items, now)
        /\ TableValid(caches, Sales, now)

----------------------------------------------------------------------------
(* Properties of the helper functions (SpecQuery) *)

\* The key/value pairs of a mapping that are not pagination.
FilterPairs(params) ==
    {params[i] : i \in {j \in DOMAIN params : params[j][1] \notin PaginationKeys}}

\* C12: two mappings with the same non-pagination key/value pairs have equal
\* fingerprints, whatever their key order and their limit and cursor values.
C12_FingerprintOrderIndependent ==
    (probe.fn = "serializeQuery"
     /\ FilterPairs(probe.args[1]) = FilterPairs(probe.args[2]))
    => probe.results[1] = probe.results[2]

\* Two filters in opposite orders, one of the mappings carrying a limit.
C12_Witness ==
    /\ probe.fn = "serializeQuery"
    /\ probe.args[1] = << <<"status", "active">>, <<"location", "L1">> >>
    /\ probe.args[2] = << <<"limit", 100>>, <<"location", "L1">>, <<"status", "active">> >>

\* C15: a list call whose query hits the cache returns what the cache answered,
\* issues no upstream request and leaves every table as it was.
C15_ListHitIsLocal ==
    [][ \A p \in Callers :
          (/\ ops' = ops + 1
           /\ NextCaller(p)
           /\ calls'[p].pc = "done"
           /\ calls'[p].method = "list"
           /\ calls'[p].hit)
          => /\ calls'[p].requests = <<>>
             /\ calls'[p].sets = 0
             /\ upstream' = upstream
             /\ calls'[p].result
                   = ManagerGet(caches, config, calls'[p].type, calls'[p].params, now).result
             /\ \A n \in DOMAIN caches' :
                   caches'[n].data = (IF n \in DOMAIN caches THEN caches[n].data ELSE None)
      ]_vars

\* A list call answered from the cache with a non-empty list.
C15_Witness ==
    \E p \in Callers :
        /\ calls[p].pc = "done"
        /\ calls[p].method = "list"
        /\ calls[p].hit
        /\ calls[p].result # None
        /\ calls[p].result[1] # <<>>

\* C16: with caching enabled, a get-by-id call issues an upstream get exactly when
\* the id is not in the type's valid table; when the entity arrives it is stored, so
\* that a get-by-id for the same id right after it is a hit.
C16_GetByIdFetchesOnMiss ==
    [][ \A p \in Callers :
          /\ (ops' = ops + 1 /\ NextCaller(p) /\ calls'[p].method = "get" /\ config.enabled)
             => LET present ==
                        /\ TableValid(caches, calls'[p].type, now)
                        /\ EntryIndex(Table(calls'[p].type).entries, calls'[p].id) # 0
                IN  /\ present <=> calls'[p].hit
                    /\ present <=> calls'[p].requests = <<>>
                    /\ present => calls'[p].pc = "done"
                    /\ ~present => calls'[p].pc = "awaitGet" /\ Len(calls'[p].requests) = 1
          /\ (calls[p].pc = "awaitGet" /\ calls'[p].pc = "done" /\ config.enabled)
             => ManagerGetById(caches', config, calls[p].type, calls[p].id, now').result
                   = calls'[p].result
      ]_vars

\* A get-by-id answered from the cache for an id that a list call had stored.
C16_Witness ==
    \E p, o \in Callers :
        /\ calls[p].pc = "done" /\ calls[p].method = "get" /\ calls[p].hit
        /\ calls[o].pc = "done" /\ calls[o].method = "list" /\ ~calls[o].hit
        /\ calls[p].type = calls[o].type

\* C18: with caching disabled no table ever becomes present, every Manager get and
\* getById is a miss, every set and setById changes nothing, and every list and
\* get-by-id call that returned went to the upstream.
C18_DisabledCachesNothing ==
    ~config.enabled
    => /\ \A n \in DOMAIN caches : caches[n].data = None
       /\ \A in \in ListInputs :
             /\ ManagerGet(caches, config, in[1], in[2], now).result = None
             /\ ManagerGet(caches, config, in[1], in[2], now).caches = caches
             /\ ManagerSet(caches, config, in[1], in[2], upstream[in[1]], now) = caches
       /\ \A in \in GetInputs :
             /\ ManagerGetById(caches, config, in[1], in[2], now).result = None
             /\ ManagerGetById(caches, config, in[1], in[2], now).caches = caches
             /\ \A i \in DOMAIN upstream[in[1]] :
                   ManagerSetById(caches, config, in[1], upstream[in[1]][i].id,
                                  upstream[in[1]][i], now) = caches
       /\ \A p \in Callers :
             (calls[p].pc = "done" /\ calls[p].method \in {"list", "get"})
             => ~calls[p].hit /\ Len(calls[p].requests) >= 1

\* With caching disabled, the same list was asked for twice and fetched twice.
C18_Witness ==
    /\ ~config.enabled
    /\ \E p, o \in Callers :
          /\ p # o
          /\ calls[p].pc = "done" /\ calls[p].method = "list"
          /\ calls[o].pc = "done" /\ calls[o].method = "list"
          /\ calls[p].params = calls[o].params
          /\ calls[p].type = calls[o].type
          /\ ~calls[p].raced

\* C21: when refreshCache(T) completes on an enabled cache with no other operation
\* interleaved, T's table holds exactly the entities of the upstream unfiltered
\* list, its only fingerprint is that of the empty query, and every filtered
\* query that was known before the refresh misses.
RefreshedAlone(p) ==
    /\ calls[p].method = "refresh"
    /\ calls[p].pc = "awaitList"
    /\ calls'[p].pc = "done"
    /\ calls[p].startedAlone
    /\ calls[p].startOps = ops
    /\ config.enabled

C21_RefreshRebuildsTable ==
    [][\A p \in Callers :
          RefreshedAlone(p) =>
             LET type == calls[p].type IN
             /\ type \in DOMAIN caches'
             /\ IsValid(caches'[type], now)
             /\ ElementsOf([i \in DOMAIN caches'[type].data[1].entries |->
                              caches'[type].data[1].entries[i].data])
                   = ElementsOf(upstream[type])
             /\ Len(caches'[type].data[1].entries) = Len(upstream[type])
             /\ caches'[type].data[1].uniqueQueries = {SerializeQuery(<<>>)}
             /\ \A q \in calls[p].known :
                   q # SerializeQuery(<<>>)
                      => ManagerGet(caches', config, type, q, now).result = None]_vars

C21_Witness ==
    \E p \in Callers :
        /\ calls[p].method = "refresh"
        /\ calls[p].pc = "done"
        /\ calls[p].startedAlone
        /\ calls[p].startOps = ops
        /\ config.enabled
        /\ SerializeQuery(QActive) \in calls[p].known
        /\ calls[p].type \in DOMAIN caches
        /\ caches[calls[p].type].data # None
        /\ caches[calls[p].type].data[1].uniqueQueries = {SerializeQuery(<<>>)}

\* C22: search and suggestFieldValues never read or write the cache: every call,
\* also one that repeats the arguments of another, sends exactly one upstream
\* request, and no step of it changes a table, a fingerprint set or a hit or
\* miss counter.
SearchMethods == {"search", "suggestFieldValues"}

C22_SearchBypassesCache ==
    [][\A p \in Callers :
          /\ (NextCaller(p) /\ ops' = ops + 1 /\ calls'[p].method \in SearchMethods)
                => /\ caches' = caches
                   /\ calls'[p].pc = "awaitSearch"
                   /\ Len(calls'[p].requests) = 1
          /\ (calls[p].pc = "awaitSearch" /\ calls'[p] # calls[p])
                => /\ caches' = caches
                   /\ calls'[p].requests = calls[p].requests
                   /\ ~calls'[p].hit]_vars

C22_Witness ==
    /\ \A p \in Callers :
          /\ calls[p].method = "search"
          /\ calls[p].pc = "done"
          /\ Len(calls[p].requests) = 1
    /\ calls["c1"].params = calls["c2"].params
    /\ \E n \in DOMAIN caches : caches[n].data # None

----------------------------------------------------------------------------
(* Properties of the CacheManager surface under short TTLs (SpecExpiry) *)

\* C19: with ttl.T = n configured, a get for the fingerprint of the set that created
\* T's table at time t is a hit at every time before t + n and a miss from t + n on.
C19_TableLivesForConfiguredTtl ==
    [][ (/\ ops' = ops + 1
         /\ last'.op = "get"
         /\ last.op = "set"
         /\ ~last.validBefore
         /\ last'.type = last.type
         /\ SerializeQuery(last'.params) = SerializeQuery(last.params)
         /\ config.enabled
         /\ TtlAt(config, last.type) # None)
        => (last'.result # None <=> now < last.at + TtlAt(config, last.type)[1])
      ]_vars

\* C20: what getAllStats reports for a table that has expired is what it reports for
\* an invalidated one: nothing.
C20_ExpiredTableUnobservable ==
    (last.op = "getAllStats")
    => \A n \in DOMAIN caches :
          TableExpired(caches, n, last.at) => last.result[1][n] = None


----------------------------------------------------------------------------
(* Properties of the tool handlers (SpecTools) *)

\* The requests sent to the list endpoints for the tool call so far.
Requests == calls["c1"].requests

\* C26: no request sent to an upstream list endpoint carries date_from or
\* date_to, for the list tools and for the aggregate tools alike, while the
\* other filters of the call are forwarded.
C26_NoDateSentUpstream ==
    \A i \in DOMAIN Requests :
        /\ ~HasKey(Requests[i], "date_from")
        /\ ~HasKey(Requests[i], "date_to")
        /\ HasKey(probe.args, "status")
              => /\ HasKey(Requests[i], "status")
                 /\ Lookup(Requests[i], "status") = Lookup(probe.args, "status")

\* C27: every upstream list request issued while draining a query carries a
\* limit of at most 100, the largest page size the API accepts, whatever limit
\* the caller of the tool supplied.
C27_PageSizeAtMost100 ==
    \A i \in DOMAIN Requests :
        /\ HasKey(Requests[i], "limit")
        /\ Lookup(Requests[i], "limit") <= MaxPageSize

\* C30 as stated: for a list tool called with date_from and/or date_to, the
\* returned data are exactly the fetched entities that have a created timestamp
\* t with date_from <= t <= date_to (each bound applied only if given), entities
\* without a created field being excluded; and client_filtered is true exactly
\* when at least one date bound was given.
Fetched == calls["c1"].result[1]

DateBoundGiven == HasKey(probe.args, "date_from") \/ HasKey(probe.args, "date_to")

InRange(e) ==
    /\ e.created # None
    /\ HasKey(probe.args, "date_from")
          => NewDate(Lookup(probe.args, "date_from")) <= NewDate(e.created[1])
    /\ HasKey(probe.args, "date_to")
          => NewDate(e.created[1]) <= NewDate(Lookup(probe.args, "date_to"))

Answered == probe.fn \in DateTools /\ probe.results # <<>>

----------------------------------------------------------------------------
(* Properties of the size warnings (SpecThreshold, SpecWarn) *)

\* C28: set emits no size warning while the entity count is below the
\* configured warningThreshold and emits one when the count is at or above it,
\* for every warningThreshold, those above 50 000 included.
C28_WarnsFromThresholdOn ==
    probe.fn = "checkThreshold"
      => LET count == probe.args[1] IN
         /\ count < config.warningThreshold => probe.results[1] = "none"
         /\ count >= config.warningThreshold => probe.results[1] # "none"

\* How many of the tiers (warningThreshold, 50 000, 100 000) a count has reached.
TiersReached(count, warningThreshold) ==
    Cardinality({n \in {warningThreshold, WarningCount, CriticalCount} : count >= n})

\* C29: as a table grows through successive sets, the warning of a tier is
\* emitted when the tier is crossed and not again by a later set that leaves
\* the count within the same tier.
C29_WarnsOncePerTier ==
    [][(/\ ops' = ops + 1
        /\ last'.op = "set"
        /\ TableValid(caches, Items, now)
        /\ TiersReached(Len(caches[Items].data[1].entries), config.warningThreshold)
             = TiersReached(Len(caches'[Items].data[1].entries), config.warningThreshold))
       => caches'[Items].warned = "none"]_vars

----------------------------------------------------------------------------
(* Properties of reads racing with a mutation (SpecRace) *)

\* The entity of the API's data that carries the id.
UpstreamEntity(up, type, id) ==
    up[type][CHOOSE i \in DOMAIN up[type] : up[type][i].id = id]

\* The entities a finished list or get-by-id call returned.
Returned(c) == IF c.method = "get" THEN {c.result[1]} ELSE ElementsOf(c.result[1])

\* C32: the API's data changes only when a mutation is applied, and the mutation
\* returns (and invalidates) in the same step; so a list or get-by-id call that is
\* answered from cache returns every entity as the API holds it at that moment -
\* nothing fetched before a mutation that has returned - also when a drain or a
\* get-by-id fetch was in flight while the mutation ran.
C32_NoStaleHitAfterMutation ==
    [][ \A p \in Callers :
          (/\ ops' = ops + 1
           /\ NextCaller(p)
           /\ calls'[p].pc = "done"
           /\ calls'[p].hit
           /\ calls'[p].method \in {"list", "get"})
          => \A e \in Returned(calls'[p]) :
                e = UpstreamEntity(upstream', calls'[p].type, e.id)
      ]_vars

----------------------------------------------------------------------------
(* Properties of the sequential run (SpecSequence) *)

\* The caches an operation's entry of the invalidation table clears.
Covered(operation) ==
    IF operation \in DOMAIN INVALIDATION_MAP
    THEN {InvalidationTarget(INVALIDATION_MAP[operation][i]) :
            i \in DOMAIN INVALIDATION_MAP[operation]}
    ELSE {}

\* Whether call j is a read of the type that mutation i changed, made after it.
ReadAfterMutation(i, j) ==
    /\ i < j
    /\ calls[i].kind = "mutation"
    /\ calls[j].kind \in {"list", "get"}
    /\ calls[j].type = calls[i].type

\* Whether a call of one of the kinds was made between calls i and j on the type
\* of call j.
ReadBetween(i, j, kinds) ==
    \E k \in (i + 1)..(j - 1) : calls[k].kind \in kinds /\ calls[k].type = calls[j].type

----------------------------------------------------------------------------
(* Properties of the drain (SpecDrain) *)

\* The response the API gives to a request of a list call.
ResponseTo(c, k) == UpstreamList(upstream[c.type], c.requests[k])

\* The pages of the first n requests of a call, concatenated.
RECURSIVE PagesOf(_, _)
PagesOf(c, n) == IF n = 0 THEN <<>> ELSE PagesOf(c, n - 1) \o ResponseTo(c, n).data

\* C35: over an API whose pagination ends, a list miss returns; it has then made
\* one request per page - each request after the first being the previous one with
\* the next_cursor of the previous response as its cursor, the last one being the
\* first whose response has no next_cursor - and has called set once, after the
\* last page, no page before it touching the caches.
C35_DrainTerminates ==
    /\ [](\A p \in Callers :
            LET c == calls[p]
                n == Len(c.requests)
            IN  /\ c.pc = "awaitList" => c.sets = 0
                /\ (c.pc = "done" /\ c.method = "list" /\ ~c.hit)
                   => /\ c.sets = 1
                      /\ n >= 1
                      /\ \A k \in 1..(n - 1) :
                            /\ ResponseTo(c, k).next_cursor # None
                            /\ c.requests[k + 1] =
                                  SetKey(c.requests[k], "cursor",
                                         ResponseTo(c, k).next_cursor[1])
                      /\ ResponseTo(c, n).next_cursor = None
                      /\ c.result = Some(PagesOf(c, n)))
    /\ [][\A p \in Callers :
            (/\ calls[p].pc = "awaitList" /\ calls'[p].pc = "awaitList"
             /\ Len(calls'[p].requests) = Len(calls[p].requests) + 1)
            => caches' = caches]_vars
    /\ \A p \in Callers : (calls[p].pc = "awaitList") ~> (calls[p].pc = "done")

\* A drain of two pages that has returned, over a table another query had built.
C35_Witness ==
    \E p \in Callers :
        /\ calls[p].pc = "done"
        /\ calls[p].method = "list"
        /\ ~calls[p].hit
        /\ Len(calls[p].requests) = 2
        /\ calls[p].sets = 1
        /\ config.enabled
        /\ Cardinality(caches[calls[p].type].data[1].uniqueQueries) = 2

----------------------------------------------------------------------------
(* Properties of the fingerprint text (SpecFingerprint) *)

\* C37: two mappings that differ in the presence or in the scalar value of a key
\* other than limit and cursor have different fingerprints, so the fingerprint one
\* of them was stored under is not the one get looks up for the other.
C37_FingerprintsDoNotCollide ==
    (probe.fn = "serializeQuery"
     /\ FilterPairs(probe.args[1]) # FilterPairs(probe.args[2]))
    => /\ probe.results[1] # probe.results[2]
       /\ probe.results[2] \notin {probe.results[1]}

\* A string value spelling a second member, against the mapping that has that
\* member; and the number 1 against the string "1".
C37_Witness ==
    /\ probe.fn = "serializeQuery"
    /\ \/ /\ probe.args[1] = << <<"a", Forged>> >>
          /\ probe.args[2] = << <<"a", JsonString(<<"x">>)>>, <<"b", JsonString(<<"x">>)>> >>
       \/ /\ probe.args[1] = << <<"a", JsonNumber(<<"1">>)>> >>
          /\ probe.args[2] = << <<"a", JsonString(<<"1">>)>> >>
    /\ probe.results[1] # probe.results[2]

----------------------------------------------------------------------------
(* Properties of the caches of different types (SpecIsolation) *)

\* The cache names a list of invalidation keys addresses.
TargetsOf(types) == {InvalidationTarget(types[i]) : i \in DOMAIN types}

\* The caches other than those in `addressed` are the same before and after the
\* step: none is created, and entries, fingerprint set, timestamps and counters of
\* each are what they were.
OthersUntouched(addressed) ==
    /\ DOMAIN caches \subseteq DOMAIN caches'
    /\ \A n \in DOMAIN caches' \ addressed : n \in DOMAIN caches /\ caches'[n] = caches[n]

\* C38: a get, set, getById or setById addressed to one type changes the cache of
\* no other type, an invalidate changes only the caches its keys address, and a
\* mutation method changes only the caches the invalidation table lists for its
\* operation, each of which it leaves without a table.
C38_CachesIsolated ==
    [][ops' = ops + 1
       => IF Len(calls') > Len(calls)
          THEN LET method == calls'[Len(calls')].method
                   listed == TargetsOf(INVALIDATION_MAP[MutationMethods[method].operation])
               IN  /\ OthersUntouched(listed)
                   /\ \A n \in listed : n \in DOMAIN caches' /\ caches'[n].data = None
          ELSE IF last'.op = "invalidate"
               THEN OthersUntouched(TargetsOf(last'.params))
               ELSE /\ last'.op \in {"get", "set", "getById", "setById"}
                    /\ OthersUntouched({last'.type})]_vars

\* updateItem has run after both lists were stored: the item cache is without a
\* table, the sale cache still holds its own and has since answered a get.
C38_Witness ==
    /\ \E i \in DOMAIN calls : calls[i].method = "updateItem"
    /\ Items \in DOMAIN caches /\ caches[Items].data = None
    /\ Sales \in DOMAIN caches /\ caches[Sales].data # None
    /\ Hits(caches, Sales) > 0
    /\ last.op = "get" /\ last.type = Sales /\ last.result # None

====
